---------------------------- MODULE Spec2Model ----------------------------
(***************************************************************************)
(* Model of the risk-gated order execution engine of TradingHass:          *)
(*   - RiskManagementAgent   (src/tradinghaas/agents/risk-management-agent.py) *)
(*   - ExecutionAgent        (src/Trader H v.1o/agents/execution-agent.py)  *)
(*                                                                         *)
(* Several private helpers the agents call (_validate_order, _place_order,  *)
(* _get_order_status, _check_portfolio_risk, ...) are defined nowhere in    *)
(* the repository.  They are modelled from spec.md where it describes them  *)
(* and as a nondeterministic choice over their possible results (a value,   *)
(* or an exception caught by the caller's handler) where it does not.       *)
(*                                                                         *)
(* Money, volumes and ratios are scaled integers; every ratio the code      *)
(* computes in floating point is kept as an exact fraction num/den.         *)
(***************************************************************************)
EXTENDS Integers, Sequences, FiniteSets, TLC

VARIABLES
    portfolio,          \* PortfolioState: [total_value, risk_exposure]
    calls,              \* in-flight validate_trade calls, per caller
    decisions,          \* every (approved, result) pair validate_trade has returned
    placements,         \* every _place_order that returned an order id
    last_exec,          \* what the most recent execute_order did
    active_orders,      \* ExecutionAgent.active_orders: order id -> tracked request
    broker,             \* the broker's book: order id -> [status, filled, quantity]
    mon,                \* in-flight monitor_order calls, per task
    monitor_calls,      \* number of monitor_order calls made so far
    last_dispatch,      \* the status the most recent _handle_execution_issues fetched
    execution_metrics,  \* ExecutionAgent.execution_metrics: three rolling windows
    appended,           \* number of samples ever appended to each window
    impact_in,          \* inputs of the impact estimate under study
    impact_out,         \* the estimate computed from impact_in
    strategy_in,        \* inputs of the strategy selection under study
    strategy_out,       \* the strategy selected from strategy_in
    shutdown,           \* position and effects of ExecutionAgent.shutdown
    bus,                \* IntegrationLayer: ORDER limiter, one priority queue
    supervision,        \* what awaited monitor_order calls have done, per order
    book,               \* cash, positions and total value of a portfolio
    stress,             \* a portfolio and the result of _run_stress_tests on it
    subs,               \* IntegrationLayer: subscribers, routed and delivered messages
    trading,            \* TradingSystem.start: the signal at hand and what was done with it
    configs,            \* ConfigurationManager: stored configuration, file, notifications
    buffer,             \* DataManagementSystem: data_buffer, flushes in flight, backend
    circuit             \* CircuitBreaker: status and the last check_conditions call

vars == << portfolio, calls, decisions, placements, last_exec, active_orders,
           broker, mon, monitor_calls, last_dispatch, execution_metrics,
           appended, impact_in, impact_out, strategy_in, strategy_out,
           shutdown, bus, supervision, book, stress, subs, trading, configs,
           buffer, circuit >>

riskVars    == << portfolio, calls, decisions >>
execVars    == << placements, last_exec, active_orders, broker >>
monVars     == << mon, monitor_calls, last_dispatch >>
metricVars  == << execution_metrics, appended >>
impactVars  == << impact_in, impact_out >>
selVars     == << strategy_in, strategy_out >>
finalVars   == << stress, subs, trading, configs, buffer, circuit >>
laterVars   == << supervision, book, finalVars >>
restVars    == << selVars, shutdown, bus, laterVars >>

-----------------------------------------------------------------------------
(* Bounds of the model *)

MaxCallers == 2        \* concurrent validate_trade calls
MaxOrders == 2         \* order ids the broker hands out
MaxQty == 3            \* largest quantity of a supervised order
MaxMonitorCalls == 2   \* monitor_order calls in one behaviour, all may overlap
MaxExecOrders == 1     \* orders placed through execute_order in one behaviour
ExtraSamples == 3      \* samples appended beyond a full window
MaxScore == 2          \* largest score a strategy scoring function returns
ExtraPublishes == 2    \* ORDER messages published beyond the rate limit
MaxTrades == 2         \* fills booked on one portfolio in one behaviour
MaxSubscribers == 2    \* subscribe calls in one behaviour
MaxRouted == 2         \* messages published for routing in one behaviour
MaxSignals == 3        \* signals and execute_trade calls in one behaviour
MaxUpdates == 2        \* update_config calls in one behaviour
MaxRecords == 4        \* records given to store_data in one behaviour
MaxFlushes == 2        \* _flush_buffer calls that may overlap
BatchSize == 2         \* batch_size of the data type (50 for EXECUTION_DATA)
MaxChecks == 2         \* check_conditions calls in one behaviour

-----------------------------------------------------------------------------
(* Program constants, scaled to integers *)

MaxPositionPct == 2        \* max_position_size = 0.02, in percent
MaxPortfolioRiskPct == 5   \* max_portfolio_risk = 0.05, in percent
MetricsMaxLen == 1000      \* deque(maxlen=1000)
OrderRateLimit == 50       \* rate_limits[MessageType.ORDER]
RetryAttempts == 1         \* ExecutionConfig.retry_attempts (no default; 1 here)
CommissionPerMille == 1    \* commission_rate = 0.001, in thousandths
HighConfidencePct == 80    \* signal.confidence > 0.8, in percent
CoreMaxPositionPct == 2    \* trading-system-core max_position_size = 0.02
CoreMaxPortfolioRiskPct == 5 \* trading-system-core max_portfolio_risk = 0.05
\* CircuitBreaker.thresholds, in thousandths
DailyLossPerMille == 20
DailyLossThreshold == 0 - DailyLossPerMille
ErrorRateThreshold == 50
SystemLatencyThreshold == 500
DataQualityThreshold == 950
ImpactThresholdTenths == 1 \* impact_threshold = 0.1, in tenths
MaxSpreadBps == 20         \* max_spread = 0.002, in units of 0.0001
RefVolatilityPct == 20     \* "Normalized to 20% volatility": 0.2, in percent
VolumeWeightTenths == 5    \* volume_factor * 0.5
VolatilityWeightTenths == 3 \* volatility_factor * 0.3
SpreadWeightTenths == 2    \* spread_factor * 0.2

None == 0 - 1              \* Python's None / a datum that is unavailable

Min(a, b) == IF a <= b THEN a ELSE b

-----------------------------------------------------------------------------
(* Enumerations *)

OrderStatus == {"PENDING", "ACTIVE", "PARTIALLY_FILLED", "FILLED", "CANCELLED", "REJECTED"}
ExecutionStrategy == {"AGGRESSIVE", "PASSIVE", "SMART", "VWAP", "TWAP"}
TerminalStatus == {"FILLED", "CANCELLED", "REJECTED"}
NoOrder == "NONE"          \* an order id the broker has not handed out yet

Symbols == {"AAA", "BBB"}
OrderIds == 1..MaxOrders
Tasks == 1..MaxMonitorCalls
Callers == 1..MaxCallers
Quantities == 1..MaxQty
ExecQuantities == {1, 2}     \* quantities of the requests given to execute_order

\* Market state per symbol, as the Market State Provider may supply it.
AvgVolumes == {None, 0, 2, 20}      \* shares, same unit as quantity
Volatilities == {None, 0, 2, 20}    \* percent
Spreads == {None, 0, 2, 20}         \* units of 0.0001


-----------------------------------------------------------------------------
(* Exact fractions standing for the code's floats; denominators are > 0 *)

RECURSIVE GCD(_, _)
GCD(a, b) == IF b = 0 THEN a ELSE GCD(b, a % b)

\* n/d in lowest terms (n >= 0, d >= 0, not both 0).
Frac(n, d) == [num |-> n \div GCD(n, d), den |-> d \div GCD(n, d)]
FAdd(a, b) ==
    LET g == GCD(a.den, b.den)
    IN IF g = 0 THEN Frac(a.num * b.den + b.num * a.den, a.den * b.den)
       ELSE Frac(a.num * (b.den \div g) + b.num * (a.den \div g),
                 (a.den \div g) * b.den)
FMul(a, b) == Frac(a.num * b.num, a.den * b.den)
FLeq(a, b) ==
    LET g == GCD(a.den, b.den)
    IN IF g = 0 THEN a.num * b.den <= b.num * a.den
       ELSE a.num * (b.den \div g) <= b.num * (a.den \div g)
FLess(a, b) == ~FLeq(b, a)

-----------------------------------------------------------------------------
(* ExecutionAgent._estimate_market_impact *)

\* An impact value: +infinity, or the finite fraction val.
InfImpact == [inf |-> TRUE, val |-> Frac(0, 1)]
Finite(f) == [inf |-> FALSE, val |-> f]

ImpactLeq(a, b) == b.inf \/ (~a.inf /\ FLeq(a.val, b.val))

\* volume_factor = request.quantity / avg_volume
VolumeFactorInverted(quantity, avg_volume) == Frac(avg_volume, quantity)
VolumeFactor(quantity, avg_volume) == Frac(quantity, avg_volume)

\* volatility_factor = volatility / 0.2
VolatilityFactorRaw(volatility) == Frac(volatility, 100)
VolatilityFactor(volatility) == Frac(volatility, RefVolatilityPct)

\* spread_factor = spread / self.max_spread
SpreadFactor(spread) == Frac(spread, MaxSpreadBps)

\* The except branch: return float('inf')
ImpactOnErrorZero == Finite(Frac(0, 1))
ImpactOnError == InfImpact

\* Any of the three getters raising or returning None, or a zero average
\* volume, raises inside the try block (TypeError / ZeroDivisionError).
ImpactDataMissing(avg_volume, volatility, spread) ==
    avg_volume = None \/ volatility = None \/ spread = None \/ avg_volume = 0

EstimateMarketImpact(quantity, avg_volume, volatility, spread) ==
    IF ImpactDataMissing(avg_volume, volatility, spread)
    THEN ImpactOnError
    ELSE Finite(FAdd(FAdd(FMul(VolumeFactor(quantity, avg_volume),
                               Frac(VolumeWeightTenths, 10)),
                          FMul(VolatilityFactor(volatility),
                               Frac(VolatilityWeightTenths, 10))),
                     FMul(SpreadFactor(spread), Frac(SpreadWeightTenths, 10))))

\* The scenario of spec.md: quantity 100,000 against an average volume of
\* 200,000, volatility at the reference value, spread at max_spread.
ScenarioImpactIn ==
    [quantity |-> 100000, avg_volume |-> 200000,
     volatility |-> RefVolatilityPct, spread |-> MaxSpreadBps]

\* impact > self.impact_threshold
ExceedsThresholdNever(impact) == FALSE
ExceedsThreshold(impact) ==
    impact.inf \/ FLess(Frac(ImpactThresholdTenths, 10), impact.val)

-----------------------------------------------------------------------------
(* RiskManagementAgent.validate_trade and its helpers *)

\* Factors are in tenths (10 = 1.0).  With the total values used here every
\* product below divides exactly, so \div loses nothing.
Confidences == {5, 10}
VolatilityFactors == {5, 10, 20}
CorrelationFactors == {10}
TotalValues == {50000, 1000000}
RiskExposures == {0, 1000, 2000, 3000}

NoSymbol == "?"            \* a signal without a 'symbol' key
Directions == {"BUY", "SELL"}
NoDirection == "??"        \* a signal without a 'direction' key

\* symbol = signal['symbol']; direction = signal['direction']: a missing key
\* raises KeyError.
MalformedSignalSymbolOnly(symbol, direction) == symbol = NoSymbol
MalformedSignal(symbol, direction) == symbol = NoSymbol \/ direction = NoDirection

\* base_size = portfolio.total_value * self.max_position_size
BaseSize(total_value) == (total_value * MaxPositionPct) \div 100

\* min(adjusted_size, base_size); any exception in the helper gives 0.0.
UncappedPositionSize(total_value, confidence, volatility_factor, correlation_factor, ok) ==
    IF ~ok THEN 0
    ELSE (BaseSize(total_value) * confidence * volatility_factor * correlation_factor)
             \div 1000
CalculatePositionSize(total_value, confidence, volatility_factor, correlation_factor, ok) ==
    IF ~ok THEN 0
    ELSE Min((BaseSize(total_value) * confidence * volatility_factor * correlation_factor)
                 \div 1000,
             BaseSize(total_value))

\* The keys of the dict _perform_risk_checks builds, in insertion order.
CheckNames == << "portfolio_risk", "position_limit", "sector_exposure",
                 "correlation_risk", "leverage_limit", "margin_requirement",
                 "liquidity_risk" >>
ExternalChecks == {"sector_exposure", "correlation_risk", "leverage_limit",
                   "margin_requirement", "liquidity_risk"}

\* The portfolio risk limit in currency: max_portfolio_risk * total_value.
PortfolioRiskLimit(p) == (p.total_value * MaxPortfolioRiskPct) \div 100

\* _check_portfolio_risk(portfolio): portfolio risk <= limit.
CheckPortfolioRisk(p) == p.risk_exposure <= PortfolioRiskLimit(p)

\* _check_position_limit(position_size, portfolio): position size <= limit.
CheckPositionLimit(position_size, p) == position_size <= BaseSize(p.total_value)

PerformRiskChecksExposureFloor(position_size, p, failing, ok) ==
    IF ~ok THEN [k \in {"error"} |-> FALSE]
    ELSE [k \in {CheckNames[i] : i \in 1..Len(CheckNames)} |->
            CASE k = "portfolio_risk" -> p.risk_exposure > 0
              [] k = "position_limit" -> CheckPositionLimit(position_size, p)
              [] OTHER -> k \notin failing]

\* _perform_risk_checks: the dict of results; `failing` are the checks on
\* market/sector data that fail, `ok` is FALSE when a check raises and the
\* handler returns {'error': False}.
PerformRiskChecks(position_size, p, failing, ok) ==
    IF ~ok THEN [k \in {"error"} |-> FALSE]
    ELSE [k \in {CheckNames[i] : i \in 1..Len(CheckNames)} |->
            CASE k = "portfolio_risk" -> CheckPortfolioRisk(p)
              [] k = "position_limit" -> CheckPositionLimit(position_size, p)
              [] OTHER -> k \notin failing]

\* [k for k, v in risk_checks.items() if not v]
FailedChecksAll(risk_checks) == CheckNames
FailedChecks(risk_checks) ==
    IF "error" \in DOMAIN risk_checks THEN << "error" >>
    ELSE SelectSeq(CheckNames, LAMBDA k : ~risk_checks[k])

\* all(risk_checks.values())
AllPassAnyway(risk_checks) == TRUE
AllPass(risk_checks) == \A k \in DOMAIN risk_checks : risk_checks[k]

\* The (approved, result) pair validate_trade returns for a computed size.
RiskDecision(symbol, position_size, risk_checks, params_ok) ==
    IF AllPass(risk_checks) /\ ~params_ok
    THEN [symbol |-> symbol, approved |-> FALSE, size |-> 0,
          reason |-> "Validation error", failed_checks |-> << >>,
          checks |-> risk_checks]
    ELSE IF ~AllPass(risk_checks)
    THEN [symbol |-> symbol, approved |-> FALSE, size |-> 0,
          reason |-> "Risk limits exceeded",
          failed_checks |-> FailedChecks(risk_checks),
          checks |-> risk_checks]
    ELSE [symbol |-> symbol, approved |-> TRUE, size |-> position_size,
          reason |-> "", failed_checks |-> << >>,
          checks |-> risk_checks]

\* The signal's confidence and the two factors a sizing worked with; ok is
\* FALSE when obtaining one of them raised.
NoFactors == [confidence |-> 0, volatility_factor |-> 0, correlation_factor |-> 0,
              ok |-> FALSE]

IdleCall == [pc |-> "idle", symbol |-> NoSymbol, direction |-> NoDirection,
             size |-> 0, factors |-> NoFactors]

\* The checks of a call that raised before _perform_risk_checks returned.
NoChecks == [k \in {} |-> TRUE]

\* The (False, {'reason': 'Validation error'}) pair of the except branch.
ValidationError(symbol) ==
    [symbol |-> symbol, approved |-> FALSE, size |-> 0,
     reason |-> "Validation error", failed_checks |-> << >>,
     checks |-> NoChecks]

Logged(c, direction, d) ==
    [caller |-> c, symbol |-> d.symbol, direction |-> direction,
     approved |-> d.approved, size |-> d.size,
     reason |-> d.reason, failed_checks |-> d.failed_checks,
     checks |-> d.checks]

\* The decisions validate_trade has written a log record for: its only
\* logging call is the logger.error of the except branch (line 114), so a
\* decision is on record exactly when the call ended in 'Validation error'.
AuditLog(ds) == {d \in ds : d.reason = "Validation error"}

\* validate_trade up to the end of _calculate_position_size: reads the
\* signal and portfolio.total_value.  A signal without a symbol or without
\* a direction raises KeyError at once and the call returns the validation
\* error.
ValidateSize(c) ==
    /\ calls[c].pc = "idle"
    /\ \A d \in decisions : d.caller # c
    /\ \E symbol \in Symbols \cup {NoSymbol},
          direction \in Directions \cup {NoDirection},
          confidence \in Confidences,
          vf \in VolatilityFactors, cf \in CorrelationFactors, ok \in BOOLEAN :
         IF MalformedSignal(symbol, direction)
         THEN /\ decisions' = decisions \cup
                                {Logged(c, direction, ValidationError(symbol))}
              /\ calls' = calls
         ELSE /\ calls' = [calls EXCEPT ![c] =
                     [pc |-> "sized", symbol |-> symbol, direction |-> direction,
                      size |-> CalculatePositionSize(portfolio.total_value,
                                                     confidence, vf, cf, ok),
                      factors |-> [confidence |-> confidence,
                                   volatility_factor |-> vf,
                                   correlation_factor |-> cf, ok |-> ok]]]
              /\ decisions' = decisions
    /\ UNCHANGED portfolio

\* validate_trade from _perform_risk_checks to its return: reads
\* portfolio.risk_exposure, writes nothing to the portfolio.
ValidateReturn(c) ==
    /\ calls[c].pc = "sized"
    /\ \E failing \in {{}} \cup {{k} : k \in ExternalChecks},
          checks_ok \in BOOLEAN, params_ok \in BOOLEAN :
         LET d == RiskDecision(calls[c].symbol, calls[c].size,
                               PerformRiskChecks(calls[c].size, portfolio,
                                                 failing, checks_ok),
                               params_ok)
         IN decisions' = decisions \cup {Logged(c, calls[c].direction, d)}
    /\ calls' = [calls EXCEPT ![c] = IdleCall]
    /\ UNCHANGED portfolio

InitRisk ==
    /\ portfolio \in [total_value : TotalValues, risk_exposure : RiskExposures]
    /\ calls = [c \in Callers |-> IdleCall]
    /\ decisions = {}

-----------------------------------------------------------------------------
(* ExecutionAgent.execute_order *)

Requests == [symbol : Symbols, quantity : ExecQuantities]

FreeIds == {o \in OrderIds : broker[o].status = NoOrder}
NextOrderId == CHOOSE o \in FreeIds : \A x \in FreeIds : o <= x

NoBrokerOrder == [status |-> NoOrder, filled |-> 0, quantity |-> 0]
NewBrokerOrder(quantity) == [status |-> "PENDING", filled |-> 0, quantity |-> quantity]

\* Whether a validate_trade for this symbol has already returned approved
\* with a position size > 0.
RiskApproved(symbol) ==
    \E d \in decisions : d.symbol = symbol /\ d.approved /\ d.size > 0

\* Whether a validate_trade for this symbol returned approved with a
\* position size > 0 between two points of time.
RevalidatedDuring(symbol, before, after) ==
    \E d \in after \ before : d.symbol = symbol /\ d.approved /\ d.size > 0

\* What an execute_order call did.  steps: the helpers it called, in the
\* order of the calls; failed: the helper that answered False / None /
\* no order id or raised ("none": no helper did); symbol, requested: the
\* request it was given; impact: the estimate it obtained; sent: the
\* quantity of the request handed on to _place_order.
NoExec == [called |-> FALSE, data_missing |-> FALSE, impact_inf |-> FALSE,
           exceeds |-> FALSE, adjusted |-> FALSE, place_called |-> FALSE,
           placed |-> FALSE, ok |-> FALSE,
           steps |-> << >>, failed |-> "none", symbol |-> NoSymbol,
           requested |-> 0, impact |-> InfImpact, sent |-> 0]

NoRequest == [tracked |-> FALSE, symbol |-> NoSymbol, quantity |-> 0]
Tracked(request) == [tracked |-> TRUE, symbol |-> request.symbol,
                     quantity |-> request.quantity]

\* Market data << avg_volume, volatility, spread >> as execute_order may
\* find it: each datum unavailable in turn, a zero volume, a quiet market
\* (impact <= threshold) and a wide one.
ExecMarkets == { << None, 2, 2 >>, << 0, 2, 2 >>, << 20, None, 2 >>,
                 << 20, 2, None >>, << 20, 2, 2 >>, << 20, 2, 20 >> }

\* if impact > self.impact_threshold: request = _adjust_for_impact(request, impact)
TakesAdjustBranchAtThreshold(impact) ==
    impact.inf \/ FLeq(Frac(ImpactThresholdTenths, 10), impact.val)
TakesAdjustBranch(impact) == ExceedsThreshold(impact)

\* The request placement works on: the original one, or the result of
\* _adjust_for_impact when the adjust branch is taken.
PlacedRequest(request, impact, adjusted_quantity) ==
    IF TakesAdjustBranch(impact)
    THEN [request EXCEPT !.quantity = adjusted_quantity]
    ELSE request

\* What execute_order does after _validate_order accepted the request, up to
\* its return.  adj: the quantity _adjust_for_impact settles on (0: it
\* raises); outcome: how the remaining helpers answer:
\*   "gen_fail"    _generate_order_parameters returns None, _place_order(None)
\*                 gives no order id
\*   "place_fail"  _place_order returns no order id, or raises
\*   "track_fail"  the order is placed, _initialize_order_tracking raises
\*   "ok"          the order is placed and tracked
\* order_id = await self._place_order(order_params)
\* if not order_id: return False, "Order placement failed"
\* (a raising _place_order leaves through the except clause as well).
NoOrderIdNever(outcome) == FALSE
NoOrderId(outcome) == outcome \in {"gen_fail", "place_fail"}

\* The helper of execute_order that failed under an outcome.
FailedHelper(outcome) ==
    CASE outcome = "gen_fail" -> "generate"
      [] outcome = "place_fail" -> "place"
      [] outcome = "track_fail" -> "track"
      [] OTHER -> "none"

ExecuteOrder(request, avg_volume, volatility, spread, adj, outcome, via) ==
    LET impact == EstimateMarketImpact(request.quantity, avg_volume, volatility, spread)
        req == PlacedRequest(request, impact, adj)
        id == NextOrderId
        before == << "validate", "select", "estimate" >>
                     \o (IF TakesAdjustBranch(impact) THEN << "adjust" >> ELSE << >>)
        seen == [NoExec EXCEPT !.called = TRUE,
                    !.data_missing = ImpactDataMissing(avg_volume, volatility, spread),
                    !.impact_inf = impact.inf,
                    !.exceeds = ExceedsThreshold(impact),
                    !.adjusted = TakesAdjustBranch(impact),
                    !.symbol = request.symbol,
                    !.requested = request.quantity,
                    !.impact = impact,
                    !.steps = before]
    IN IF TakesAdjustBranch(impact) /\ adj = 0
       THEN /\ last_exec' = [seen EXCEPT !.failed = "adjust"]
            /\ UNCHANGED << placements, active_orders, broker >>
       ELSE IF NoOrderId(outcome)
       THEN /\ last_exec' = [seen EXCEPT !.place_called = TRUE,
                                         !.steps = before \o << "generate", "place" >>,
                                         !.failed = FailedHelper(outcome),
                                         !.sent = IF outcome = "gen_fail" THEN 0
                                                  ELSE req.quantity]
            /\ UNCHANGED << placements, active_orders, broker >>
       ELSE /\ FreeIds # {}
            /\ broker' = [broker EXCEPT ![id] = NewBrokerOrder(req.quantity)]
            /\ placements' = placements \cup
                 {[order_id |-> id, symbol |-> req.symbol,
                   via |-> via,
                   risk_validated |-> RiskApproved(req.symbol),
                   revalidated |-> RevalidatedDuring(req.symbol, decisions, decisions'),
                   impact_estimated |-> TRUE]}
            /\ active_orders' = IF outcome = "track_fail"
                                THEN active_orders
                                ELSE [active_orders EXCEPT ![id] = Tracked(req)]
            /\ last_exec' = [seen EXCEPT !.place_called = TRUE, !.placed = TRUE,
                                         !.ok = (outcome # "track_fail"),
                                         !.steps = before \o << "generate", "place", "track" >>,
                                         !.failed = FailedHelper(outcome),
                                         !.sent = req.quantity]

\* _validate_order answers False or raises: execute_order returns (False, ...).
ExecuteOrderInvalid(request) ==
    /\ last_exec' = [NoExec EXCEPT !.called = TRUE, !.steps = << "validate" >>,
                                   !.failed = "validate",
                                   !.symbol = request.symbol,
                                   !.requested = request.quantity]
    /\ UNCHANGED << placements, active_orders, broker >>

\* What the helpers of one call may answer.  _adjust_for_impact is asked only
\* when the adjust branch is taken and then settles on a quantity up to the
\* requested one (0: it raises); the later helpers are asked only when the
\* call gets as far as them.
AdjustedQuantities(request, m) ==
    IF TakesAdjustBranch(EstimateMarketImpact(request.quantity, m[1], m[2], m[3]))
    THEN 0..request.quantity
    ELSE {request.quantity}
HelperOutcomes(request, m, adj) ==
    IF adj = 0 THEN {"gen_fail"}
    ELSE {"gen_fail", "place_fail", "track_fail", "ok"}

\* One whole execute_order call, made while fewer than limit orders have
\* been placed.
ExecuteOrderCalls(limit) ==
    /\ Cardinality(placements) < limit
    /\ UNCHANGED << riskVars, monVars, metricVars, impactVars, restVars >>
    /\ \E request \in Requests :
         \/ ExecuteOrderInvalid(request)
         \/ \E m \in ExecMarkets :
            \E adj \in AdjustedQuantities(request, m) :
            \E outcome \in HelperOutcomes(request, m, adj) :
              ExecuteOrder(request, m[1], m[2], m[3], adj, outcome, "execute_order")

ExecuteOrderCall == ExecuteOrderCalls(MaxExecOrders)

\* The record of an execute_order call that placed and tracked the request
\* in a quiet market (average volume 200, volatility 2%, spread 2 bp).
TrackedExec(request) ==
    LET impact == EstimateMarketImpact(request.quantity, 200, 2, 2)
    IN [NoExec EXCEPT !.called = TRUE, !.place_called = TRUE, !.placed = TRUE,
                      !.ok = TRUE, !.symbol = request.symbol,
                      !.requested = request.quantity, !.impact = impact,
                      !.exceeds = ExceedsThreshold(impact),
                      !.adjusted = TakesAdjustBranch(impact),
                      !.impact_inf = impact.inf,
                      !.steps = << "validate", "select", "estimate", "generate",
                                   "place", "track" >>,
                      !.sent = request.quantity]

-----------------------------------------------------------------------------
(* ExecutionAgent.execution_metrics: three deque(maxlen=1000) windows *)

\* deque.append on a bounded deque: a full deque drops its oldest element.
DequeAppendDropNewest(window, x) ==
    IF Len(window) >= MetricsMaxLen THEN window ELSE Append(window, x)
DequeAppend(window, x) ==
    IF Len(window) >= MetricsMaxLen
    THEN Append(Tail(window), x)
    ELSE Append(window, x)

\* The three appends of _update_execution_metrics (lines 294-296).
AppendSamples(metrics, slippage, fill_rate, execution_time) ==
    [slippage |-> DequeAppend(metrics.slippage, slippage),
     fill_rates |-> DequeAppend(metrics.fill_rates, fill_rate),
     execution_times |-> DequeAppend(metrics.execution_times, execution_time)]

\* _update_execution_metrics(order_id, status).  ok is FALSE when computing
\* one of the three values raises (_calculate_slippage fails, the tracked
\* quantity is 0, or the status carries no last_fill_time): the handler logs
\* and nothing is appended.  Slippage and execution time are kept abstract.
UpdateExecutionMetricsPartial(metrics, order, status, ok) ==
    IF order.quantity = 0 THEN metrics
    ELSE IF ~ok THEN [metrics EXCEPT !.slippage = DequeAppend(@, 0)]
    ELSE AppendSamples(metrics, 0, Frac(status.filled, order.quantity), 0)
UpdateExecutionMetrics(metrics, order, status, ok) ==
    IF ~ok \/ order.quantity = 0
    THEN metrics
    ELSE AppendSamples(metrics, 0, Frac(status.filled, order.quantity), 0)

-----------------------------------------------------------------------------
(* The broker's side of the order state machine (spec.md 4.4) *)

NonTerminal(o) == broker[o].status \in OrderStatus \ TerminalStatus

\* Broker acknowledgment: Pending -> Active.
BrokerAck(o) ==
    /\ broker[o].status = "PENDING"
    /\ broker' = [broker EXCEPT ![o].status = "ACTIVE"]

\* Broker rejection, only pre-Active: Pending -> Rejected.
BrokerReject(o) ==
    /\ broker[o].status = "PENDING"
    /\ broker' = [broker EXCEPT ![o].status = "REJECTED"]

\* The status a fill leaves the order in.
StatusAfterFill(filled, quantity) ==
    IF filled = quantity THEN "FILLED" ELSE "PARTIALLY_FILLED"

\* A fill event: filled < requested -> PartiallyFilled, filled = requested -> Filled.
BrokerFill(o) ==
    /\ broker[o].status \in {"ACTIVE", "PARTIALLY_FILLED"}
    /\ \E f \in (broker[o].filled + 1)..broker[o].quantity :
         broker' = [broker EXCEPT ![o].filled = f,
                                  ![o].status = StatusAfterFill(f, broker[o].quantity)]

\* PartiallyFilled -> Active: the rest of the order is working again.
BrokerResume(o) ==
    /\ broker[o].status = "PARTIALLY_FILLED"
    /\ broker' = [broker EXCEPT ![o].status = "ACTIVE"]

\* The states a cancel request is honoured in.
CancellableAlways(o) == broker[o].status # NoOrder
Cancellable(o) == NonTerminal(o)

\* The book after a cancel request for o: any non-terminal state -> Cancelled.
BrokerCancelled(o) ==
    IF Cancellable(o) THEN [broker EXCEPT ![o].status = "CANCELLED"] ELSE broker

\* An explicit cancel of a working order (the caller's, or shutdown's).
ExplicitCancel(o) ==
    /\ NonTerminal(o)
    /\ broker' = BrokerCancelled(o)

\* The book after _update_order(o, new_price, new_quantity): the broker
\* amends a working order to a quantity above what is already filled.
BrokerAmended(o, new_quantity) ==
    IF NonTerminal(o) /\ new_quantity > broker[o].filled
    THEN [broker EXCEPT ![o].quantity = new_quantity]
    ELSE broker

BrokerEvent ==
    /\ \E o \in OrderIds :
         \/ BrokerAck(o)
         \/ BrokerReject(o)
         \/ BrokerFill(o)
         \/ BrokerResume(o)
         \/ ExplicitCancel(o)
    /\ UNCHANGED << riskVars, placements, last_exec, active_orders, monVars,
                    metricVars, impactVars, restVars >>

-----------------------------------------------------------------------------
(* ExecutionAgent.monitor_order, one await-delimited step at a time *)

IdleMon == [pc |-> "ready", order |-> 0, after_filled |-> FALSE]
DoneMon == [pc |-> "done", order |-> 0, after_filled |-> FALSE]
NoDispatch == NoOrder

\* The OrderUpdate _get_order_status returns: the broker's current view.
GetOrderStatus(o) == broker[o]

\* Calls are numbered in the order they are made.
MayStart(t) ==
    /\ mon[t].pc = "ready"
    /\ \A u \in Tasks : u < t => mon[u].pc # "ready"

\* monitor_order(order_id) for an id that is not tracked: ValueError, caught,
\* the call returns None.
MonitorUnknown(t, o) ==
    /\ MayStart(t)
    /\ ~active_orders[o].tracked
    /\ mon' = [mon EXCEPT ![t] = DoneMon]
    /\ monitor_calls' = monitor_calls + 1
    /\ UNCHANGED << riskVars, execVars, last_dispatch, metricVars, impactVars, restVars >>

\* monitor_order from its start to the answer of _check_execution_issues:
\* the status is fetched, the metrics are updated, and the call either
\* returns the status (no issue, or a helper raised) or goes on to
\* _handle_execution_issues.
MonitorStart(t, o) ==
    /\ MayStart(t)
    /\ active_orders[o].tracked
    /\ monitor_calls' = monitor_calls + 1
    /\ \E fetched \in BOOLEAN, metrics_ok \in BOOLEAN, issue \in BOOLEAN :
         /\ execution_metrics' =
              IF fetched
              THEN UpdateExecutionMetrics(execution_metrics, active_orders[o],
                                          GetOrderStatus(o), metrics_ok)
              ELSE execution_metrics
         /\ appended' = appended + Len(execution_metrics'.slippage)
                                 - Len(execution_metrics.slippage)
         /\ mon' = [mon EXCEPT ![t] =
                      IF fetched /\ issue
                      THEN [pc |-> "handle", order |-> o,
                            after_filled |-> broker[o].status = "FILLED"]
                      ELSE DoneMon]
    /\ UNCHANGED << riskVars, execVars, last_dispatch, impactVars, restVars >>

\* The intervention _handle_execution_issues picks for a fetched status,
\* given the answers of _should_adjust_order / _is_order_stale.
DispatchIgnoringStatus(status, should_adjust, is_stale) ==
    IF should_adjust THEN "adjusting"
    ELSE IF is_stale THEN "resubmitting"
    ELSE "done"
Dispatch(status, should_adjust, is_stale) ==
    IF status = "PARTIALLY_FILLED" /\ should_adjust THEN "adjusting"
    ELSE IF status = "ACTIVE" /\ is_stale THEN "resubmitting"
    ELSE "done"

\* _handle_execution_issues up to the start of the intervention: the status
\* is fetched again and the branch is chosen (lines 246-255).
HandleFetch(t) ==
    /\ mon[t].pc = "handle"
    /\ \E should_adjust \in BOOLEAN, is_stale \in BOOLEAN :
         LET o == mon[t].order
             next == Dispatch(GetOrderStatus(o).status, should_adjust, is_stale)
         IN /\ mon' = [mon EXCEPT ![t] =
                         IF next = "done" THEN DoneMon
                         ELSE [mon[t] EXCEPT !.pc = next]]
            /\ last_dispatch' = GetOrderStatus(o).status
    /\ UNCHANGED << riskVars, execVars, monitor_calls, metricVars, impactVars, restVars >>

\* _adjust_order_parameters to its end: new price and quantity are computed
\* and sent to the broker with _update_order (new_quantity 0: a helper raised
\* and nothing is sent).
AdjustOrderParameters(t) ==
    /\ mon[t].pc = "adjusting"
    /\ \E new_quantity \in 0..MaxQty :
         broker' = IF new_quantity = 0 THEN broker
                   ELSE BrokerAmended(mon[t].order, new_quantity)
    /\ mon' = [mon EXCEPT ![t] = DoneMon]
    /\ UNCHANGED << riskVars, placements, last_exec, active_orders, monitor_calls,
                    last_dispatch, metricVars, impactVars, restVars >>

\* The request _cancel_and_resubmit submits again: the tracked one.
ResubmittedRequest(o) ==
    [symbol |-> active_orders[o].symbol, quantity |-> active_orders[o].quantity]

\* The cancel and the re-placement of _cancel_and_resubmit(o): the order is
\* cancelled at the broker and its request is submitted again through the
\* agent's placement path (impact estimate, adjustment, parameters,
\* _place_order, tracking).  When the cancel is not honoured nothing is
\* resubmitted.
Resubmission(o) ==
    IF ~Cancellable(o)
    THEN UNCHANGED << placements, last_exec, active_orders, broker >>
    ELSE \E m \in ExecMarkets, adj \in 0..MaxQty,
            outcome \in {"place_fail", "ok"} :
           /\ adj <= active_orders[o].quantity
           /\ LET cancelled == BrokerCancelled(o)
                  id == NextOrderId
                  req == ResubmittedRequest(o)
                  impact == EstimateMarketImpact(req.quantity, m[1], m[2], m[3])
                  sent == PlacedRequest(req, impact, adj)
              IN IF outcome = "place_fail" \/ FreeIds = {}
                      \/ (TakesAdjustBranch(impact) /\ adj = 0)
                   THEN /\ broker' = cancelled
                        /\ UNCHANGED << placements, last_exec, active_orders >>
                   ELSE /\ broker' = [cancelled EXCEPT
                                         ![id] = NewBrokerOrder(sent.quantity)]
                        /\ placements' = placements \cup
                             {[order_id |-> id, symbol |-> sent.symbol,
                               via |-> "resubmit",
                               risk_validated |-> RiskApproved(sent.symbol),
                               revalidated |->
                                  RevalidatedDuring(sent.symbol, decisions, decisions'),
                               impact_estimated |-> TRUE]}
                        /\ active_orders' =
                             [active_orders EXCEPT ![id] = Tracked(sent)]
                        /\ UNCHANGED last_exec

\* _cancel_and_resubmit to its end, as the last step of a monitor_order call.
CancelAndResubmit(t) ==
    /\ mon[t].pc = "resubmitting"
    /\ mon' = [mon EXCEPT ![t] = DoneMon]
    /\ UNCHANGED << riskVars, monitor_calls, last_dispatch, metricVars, impactVars, restVars >>
    /\ Resubmission(mon[t].order)

MonitorStep ==
    \E t \in Tasks :
       \/ \E o \in OrderIds : MonitorUnknown(t, o)
       \/ \E o \in OrderIds : MonitorStart(t, o)
       \/ HandleFetch(t)
       \/ AdjustOrderParameters(t)
       \/ CancelAndResubmit(t)

-----------------------------------------------------------------------------
(* ExecutionAgent.monitor_order, one whole call at a time: the caller      *)
(* awaits each call before it makes the next one                            *)

\* What a monitor_order call did: the order it was made for, whether the
\* order was tracked, whether _get_order_status answered, the status and
\* the tracked quantity it worked with, whether the status carried a
\* last_fill_time, whether a sample went into each window, the status
\* _handle_execution_issues fetched (NoOrder: it was not reached), the
\* answers of _should_adjust_order / _is_order_stale where they were asked,
\* and the intervention that followed.
NoSupervisedCall ==
    [order |-> 0, tracked |-> FALSE, fetched |-> FALSE, status |-> NoOrder,
     quantity |-> 0, fill_time |-> FALSE, sampled |-> FALSE, handled |-> NoOrder,
     should_adjust |-> FALSE, is_stale |-> FALSE, action |-> "done"]

\* recoveries: per order, the amends sent with _update_order plus the
\* cancel-and-resubmits carried out for it so far.
NewSupervision == [recoveries |-> [o \in OrderIds |-> 0], last |-> NoSupervisedCall]

SupervisionIdle == supervision = NewSupervision

\* An OrderUpdate carries a last_fill_time once there was a fill; before the
\* first fill the broker may or may not supply one.
HasFillTime(status, supplied) == status.filled > 0 \/ supplied

\* The answers a helper can give: TRUE or FALSE where the call reaches it,
\* FALSE (standing for no answer) where it does not.
Asked(reached) == IF reached THEN BOOLEAN ELSE {FALSE}

\* monitor_order(o) from its call to its return.  fetched, slippage_ok,
\* issue, refetched: whether _get_order_status (line 142),
\* _calculate_slippage, _check_execution_issues and the second
\* _get_order_status (line 247) answer (TRUE) or raise.
MonitorOrderCall(o) ==
    /\ monitor_calls < MaxMonitorCalls
    /\ \A t \in Tasks : mon[t].pc = "ready"
    /\ monitor_calls' = monitor_calls + 1
    /\ UNCHANGED << riskVars, mon, impactVars, selVars, shutdown, bus, book,
                    finalVars >>
    /\ IF ~active_orders[o].tracked
       THEN /\ supervision' = [supervision EXCEPT
                                  !.last = [NoSupervisedCall EXCEPT !.order = o]]
            /\ UNCHANGED << execVars, last_dispatch, metricVars >>
       ELSE \E fetched \in BOOLEAN :
            \E supplied \in Asked(fetched /\ GetOrderStatus(o).filled = 0),
               slippage_ok \in Asked(fetched), issue \in Asked(fetched) :
            \E refetched \in Asked(issue) :
            \E should_adjust \in Asked(refetched), is_stale \in Asked(refetched) :
            \E new_quantity \in
                  IF Dispatch(GetOrderStatus(o).status, should_adjust, is_stale)
                        = "adjusting"
                  THEN 0..MaxQty ELSE {0} :
              LET status == GetOrderStatus(o)
                  metrics_ok == slippage_ok /\ HasFillTime(status, supplied)
                  handled == fetched /\ issue /\ refetched
                  action == IF handled
                            THEN Dispatch(status.status, should_adjust, is_stale)
                            ELSE "done"
                  sent == \/ action = "adjusting" /\ new_quantity > 0
                          \/ action = "resubmitting"
              IN /\ execution_metrics' =
                      IF fetched
                      THEN UpdateExecutionMetrics(execution_metrics, active_orders[o],
                                                  status, metrics_ok)
                      ELSE execution_metrics
                 /\ appended' = appended + Len(execution_metrics'.slippage)
                                         - Len(execution_metrics.slippage)
                 /\ last_dispatch' = IF handled THEN status.status ELSE last_dispatch
                 /\ CASE action = "adjusting" ->
                            /\ broker' = IF new_quantity = 0 THEN broker
                                         ELSE BrokerAmended(o, new_quantity)
                            /\ UNCHANGED << placements, last_exec, active_orders >>
                      [] action = "resubmitting" -> Resubmission(o)
                      [] OTHER -> UNCHANGED execVars
                 /\ supervision' =
                      [recoveries |-> IF sent
                                      THEN [supervision.recoveries EXCEPT ![o] = @ + 1]
                                      ELSE supervision.recoveries,
                       last |-> [order |-> o, tracked |-> TRUE, fetched |-> fetched,
                                 status |-> IF fetched THEN status.status ELSE NoOrder,
                                 quantity |-> active_orders[o].quantity,
                                 fill_time |-> fetched /\ HasFillTime(status, supplied),
                                 sampled |-> Len(execution_metrics'.slippage)
                                                > Len(execution_metrics.slippage),
                                 handled |-> IF handled THEN status.status ELSE NoOrder,
                                 should_adjust |-> /\ handled
                                                   /\ status.status = "PARTIALLY_FILLED"
                                                   /\ should_adjust,
                                 is_stale |-> /\ handled
                                              /\ status.status = "ACTIVE"
                                              /\ is_stale,
                                 action |-> action]]

SuperviseStep == \E o \in OrderIds : MonitorOrderCall(o)

-----------------------------------------------------------------------------
(* A portfolio's books *)

\* Money is in thousandths of the currency unit, so that the commission of
\* 0.001 * price * size is exact; prices are whole currency units.
Prices == {1000, 2000}
TradeSizes == {1, 2}
InitialCapital == 100000

\* A Position / BacktestPosition; held is FALSE for a symbol that is not a
\* key of the positions dict.
NoPosition == [held |-> FALSE, direction |-> "NONE", quantity |-> 0,
               entry_price |-> 0, current_price |-> 0, unrealized_pnl |-> 0]

\* owner: whose books these are, "backtest" (BacktestingFramework: cash,
\* equity, positions) or "risk" (RiskManagementAgent.positions with the
\* PortfolioState they belong to), "none" while no books are kept;
\* total_value: self.equity / PortfolioState.total_value.
NewBook == [owner |-> "none", cash |-> 0, total_value |-> 0,
            positions |-> [sym \in Symbols |-> NoPosition], trades |-> 0]
BookIdle == book = NewBook

RECURSIVE SumValues(_, _)
SumValues(positions, syms) ==
    IF syms = {} THEN 0
    ELSE LET sym == CHOOSE x \in syms : TRUE
         IN positions[sym].quantity * positions[sym].current_price
              + SumValues(positions, syms \ {sym})

\* for position in self.positions.values():
\*     portfolio_value += position.quantity * position.current_price
MarketValue(positions) == SumValues(positions, {sym \in Symbols : positions[sym].held})

\* commission = price * size * self.config.commission_rate
Commission(price, size) == (price * size * CommissionPerMille) \div 1000

\* The cash after a trade: self.cash -= total_cost, whatever the direction.
CashAfterTrade(cash, direction, price, size) ==
    cash - (price * size + Commission(price, size))

\* The position after a trade (lines 238-252): a new BacktestPosition with
\* quantity = size, or the existing one with the size added (BUY) or
\* subtracted (SELL) and the entry price averaged.
PositionAfterTrade(position, direction, price, size) ==
    IF ~position.held
    THEN [held |-> TRUE, direction |-> direction, quantity |-> size,
          entry_price |-> price, current_price |-> price, unrealized_pnl |-> 0]
    ELSE [position EXCEPT
            !.quantity = IF direction = "BUY" THEN @ + size ELSE @ - size,
            !.entry_price = (@ + price) \div 2]

\* BacktestingFramework._update_portfolio(signal, size, price); equity is
\* not touched.
UpdatePortfolio(sym, direction, size, price) ==
    /\ book.owner = "backtest"
    /\ book.trades < MaxTrades
    /\ book' = [book EXCEPT
                  !.positions[sym] = PositionAfterTrade(@, direction, price, size),
                  !.cash = CashAfterTrade(@, direction, price, size),
                  !.trades = @ + 1]

\* BacktestingFramework._update_positions at a price tick: the current
\* price of a held position follows the market.
UpdatePositions(sym, price) ==
    /\ book.owner = "backtest"
    /\ book.positions[sym].held
    /\ book' = [book EXCEPT !.positions[sym].current_price = price]

\* BacktestingFramework._calculate_daily_metrics: self.equity becomes cash
\* plus the market value of the positions (lines 275-281).
CalculateDailyMetrics ==
    /\ book.owner = "backtest"
    /\ book' = [book EXCEPT !.total_value = book.cash + MarketValue(book.positions)]

\* (price - entry_price) * quantity for LONG, the opposite otherwise.
UnrealizedPnl(direction, entry_price, price, quantity) ==
    IF direction = "LONG" THEN (price - entry_price) * quantity
    ELSE (entry_price - price) * quantity

\* RiskManagementAgent.update_position(symbol, price, quantity): quantity
\* None leaves the position's quantity as it is.  A symbol without a
\* position is ignored.  Cash and total value are not touched.
UpdatePosition(sym, price, quantity) ==
    /\ book.owner = "risk"
    /\ book.trades < MaxTrades
    /\ LET position == book.positions[sym]
           q == IF quantity = None THEN position.quantity ELSE quantity
       IN book' = IF ~position.held THEN [book EXCEPT !.trades = @ + 1]
                  ELSE [book EXCEPT
                          !.positions[sym] =
                             [position EXCEPT
                                !.current_price = price,
                                !.quantity = q,
                                !.unrealized_pnl =
                                   UnrealizedPnl(position.direction,
                                                 position.entry_price, price, q)],
                          !.trades = @ + 1]

BookStep ==
    /\ \/ \E sym \in Symbols, direction \in {"BUY", "SELL"}, size \in TradeSizes,
             price \in Prices : UpdatePortfolio(sym, direction, size, price)
       \/ \E sym \in Symbols, price \in Prices : UpdatePositions(sym, price)
       \/ CalculateDailyMetrics
       \/ \E sym \in Symbols, price \in Prices, quantity \in {None} \cup TradeSizes :
             UpdatePosition(sym, price, quantity)
    /\ UNCHANGED << riskVars, execVars, monVars, metricVars, impactVars, selVars,
                    shutdown, bus, supervision, finalVars >>

-----------------------------------------------------------------------------
(* ExecutionAgent._select_execution_strategy *)

\* The keys of the scores dict in insertion order (lines 166-182).
ScoreOrder == << "AGGRESSIVE", "PASSIVE", "SMART", "VWAP", "TWAP" >>

Scores == 0..MaxScore

\* What can go wrong inside the try block: a market data getter raises, or
\* a scoring function raises (on a None datum, or otherwise).
SelectionFaults == {"none", "volatility", "liquidity", "spread", "score"}

MaxOf(scores) == CHOOSE m \in Scores :
    /\ \E k \in DOMAIN scores : scores[k] = m
    /\ \A k \in DOMAIN scores : scores[k] <= m

\* max(scores.items(), key=lambda x: x[1])[0]: max returns the first of the
\* maximal items in iteration order.
MaxItem(scores) ==
    ScoreOrder[CHOOSE i \in 1..Len(ScoreOrder) :
        /\ scores[ScoreOrder[i]] = MaxOf(scores)
        /\ \A j \in 1..(i - 1) : scores[ScoreOrder[j]] < MaxOf(scores)]

\* The except branch: return ExecutionStrategy.SMART
StrategyOnErrorFirst == "AGGRESSIVE"
StrategyOnError == "SMART"

SelectExecutionStrategy(fault, scores) ==
    IF fault # "none" THEN StrategyOnError ELSE MaxItem(scores)

NoStrategyIn == [symbol |-> NoSymbol, fault |-> "none",
                 scores |-> [k \in ExecutionStrategy |-> 0]]
NoStrategy == "NONE"

SelIdle ==
    /\ strategy_in = NoStrategyIn
    /\ strategy_out = NoStrategy

-----------------------------------------------------------------------------
(* ExecutionAgent.shutdown, one await-delimited step at a time *)

\* pc: "idle", "cancelling", "saving", "closing", "done", or "failed" (the
\* except branch was taken); todo: the order ids the for loop has still to
\* visit; at_start: list(self.active_orders.keys()) when shutdown began;
\* attempted: the orders _cancel_order was called for.
NotShutDown == [pc |-> "idle", todo |-> << >>, at_start |-> {}, attempted |-> {},
                saved |-> FALSE, closed |-> FALSE]

ShutdownIdle == shutdown = NotShutDown

TrackedIds == {o \in OrderIds : active_orders[o].tracked}

\* list(self.active_orders.keys()): the keys in insertion order, which is
\* the order the ids were handed out in.
RECURSIVE KeyList(_)
KeyList(ids) ==
    IF ids = {} THEN << >>
    ELSE LET o == CHOOSE x \in ids : \A y \in ids : x <= y
         IN << o >> \o KeyList(ids \ {o})

\* The loop after _cancel_order raised for one order.
AfterCancelRaised(sd) ==
    [sd EXCEPT !.attempted = @ \cup {Head(sd.todo)}, !.pc = "failed"]

\* The loop after _cancel_order returned for one order.
AfterCancelReturned(sd) ==
    [sd EXCEPT !.todo = Tail(sd.todo), !.attempted = @ \cup {Head(sd.todo)},
               !.pc = IF Len(sd.todo) = 1 THEN "saving" ELSE "cancelling"]

\* shutdown is called: the keys are listed and the loop is entered.
ShutdownStart ==
    /\ shutdown.pc = "idle"
    /\ shutdown' = [shutdown EXCEPT !.at_start = TrackedIds,
                                    !.todo = KeyList(TrackedIds),
                                    !.pc = IF TrackedIds = {} THEN "saving"
                                           ELSE "cancelling"]
    /\ UNCHANGED broker

\* One iteration of the for loop: await self._cancel_order(order_id).
ShutdownCancelOne ==
    /\ shutdown.pc = "cancelling"
    /\ \E raised \in BOOLEAN :
         IF raised
         THEN /\ shutdown' = AfterCancelRaised(shutdown)
              /\ UNCHANGED broker
         ELSE /\ shutdown' = AfterCancelReturned(shutdown)
              /\ broker' = BrokerCancelled(Head(shutdown.todo))

\* await self._save_execution_statistics()
ShutdownSave ==
    /\ shutdown.pc = "saving"
    /\ \E raised \in BOOLEAN :
         shutdown' = IF raised THEN [shutdown EXCEPT !.pc = "failed"]
                     ELSE [shutdown EXCEPT !.pc = "closing", !.saved = TRUE]
    /\ UNCHANGED broker

\* await self._close_broker_connections()
ShutdownClose ==
    /\ shutdown.pc = "closing"
    /\ \E raised \in BOOLEAN :
         shutdown' = IF raised THEN [shutdown EXCEPT !.pc = "failed"]
                     ELSE [shutdown EXCEPT !.pc = "done", !.closed = TRUE]
    /\ UNCHANGED broker

ShutdownStep ==
    /\ \/ ShutdownStart
       \/ ShutdownCancelOne
       \/ ShutdownSave
       \/ ShutdownClose
    /\ UNCHANGED << riskVars, placements, last_exec, active_orders, monVars,
                    metricVars, impactVars, selVars, bus, laterVars >>

-----------------------------------------------------------------------------
(* IntegrationLayer.publish_message for ORDER messages of one priority *)

\* The last publish_message call: the message id, whether OrderRateLimit
\* ORDER messages had already been submitted in the current second when it
\* arrived, what it returned, and whether its put completed.
NoPublish == [id |-> 0, exhausted |-> FALSE, result |-> FALSE, enqueued |-> FALSE]

\* The layer after __init__: no rate_limiters attribute yet, empty queue.
NewBus == [initialized |-> FALSE, sem |-> 0, queue |-> << >>, stats |-> 0,
           window |-> 0, published |-> 0, last |-> NoPublish]

BusIdle == bus = NewBus

\* initialize(): rate_limiters[ORDER] = asyncio.Semaphore(50).
BusInitialize ==
    /\ ~bus.initialized
    /\ bus' = [bus EXCEPT !.initialized = TRUE, !.sem = OrderRateLimit]

\* PriorityQueue.put of (priority.value, message) is a heappush: the new
\* item is appended and compared with its parent.  All items of one queue
\* have the same priority value, so the comparison falls through to
\* Message < Message, which a plain dataclass does not define: TypeError
\* whenever the queue already holds an item.
HeapPushRaises(queue) == queue # << >>

\* One whole publish_message call.  Neither Semaphore.acquire with a free
\* permit nor put on an unbounded queue suspends, so the permit taken on
\* entering `async with` is given back before any other coroutine runs.
PublishMessage ==
    /\ bus.published < OrderRateLimit + ExtraPublishes
    /\ LET id == bus.published + 1
           arrival == [id |-> id, exhausted |-> bus.window >= OrderRateLimit,
                       result |-> FALSE, enqueued |-> FALSE]
           counted == [bus EXCEPT !.published = id, !.window = @ + 1]
       IN IF ~bus.initialized
          THEN bus' = [counted EXCEPT !.last = arrival]
          ELSE /\ bus.sem > 0
               /\ IF HeapPushRaises(bus.queue)
                  THEN bus' = [counted EXCEPT !.queue = Append(@, id),
                                              !.last = arrival]
                  ELSE bus' = [counted EXCEPT
                                  !.queue = Append(@, id),
                                  !.stats = @ + 1,
                                  !.last = [arrival EXCEPT !.result = TRUE,
                                                           !.enqueued = TRUE]]

\* _process_message_queue takes the item at the head of the queue.
ProcessMessage ==
    /\ bus.queue # << >>
    /\ bus' = [bus EXCEPT !.queue = Tail(@)]

\* A second passes: the count of ORDER submissions starts again.
SecondElapses ==
    /\ bus.window > 0
    /\ bus' = [bus EXCEPT !.window = 0]

BusStep ==
    /\ \/ BusInitialize
       \/ PublishMessage
       \/ ProcessMessage
       \/ SecondElapses
    /\ UNCHANGED << riskVars, execVars, monVars, metricVars, impactVars, selVars,
                    shutdown, laterVars >>

-----------------------------------------------------------------------------
(* Idle values of the parts a specification leaves alone *)

\* The value of a part of the system that a specification does not run.
Unused == "unused"
StressIdle == stress = Unused
SubsIdle == subs = Unused
TradingIdle == trading = Unused
ConfigsIdle == configs = Unused
BufferIdle == buffer = Unused
CircuitIdle == circuit = Unused
FinalIdle == /\ StressIdle /\ SubsIdle /\ TradingIdle
             /\ ConfigsIdle /\ BufferIdle /\ CircuitIdle
LaterIdle == SupervisionIdle /\ BookIdle /\ FinalIdle

RestIdle == SelIdle /\ ShutdownIdle /\ BusIdle /\ LaterIdle

EmptyMetrics == [slippage |-> << >>, fill_rates |-> << >>, execution_times |-> << >>]
NoImpactIn == [quantity |-> 0, avg_volume |-> None, volatility |-> None, spread |-> None]
NoImpactOut == [computed |-> FALSE, impact |-> InfImpact, adjusted |-> FALSE]

RiskIdle ==
    /\ portfolio = [total_value |-> 50000, risk_exposure |-> 0]
    /\ calls = [c \in Callers |-> IdleCall]
    /\ decisions = {}
ExecIdle ==
    /\ placements = {}
    /\ last_exec = NoExec
    /\ active_orders = [o \in OrderIds |-> NoRequest]
    /\ broker = [o \in OrderIds |-> NoBrokerOrder]
MonIdle ==
    /\ mon = [t \in Tasks |-> IdleMon]
    /\ monitor_calls = 0
    /\ last_dispatch = NoDispatch
MetricsIdle ==
    /\ execution_metrics = EmptyMetrics
    /\ appended = 0
ImpactIdle ==
    /\ impact_in = NoImpactIn
    /\ impact_out = NoImpactOut

-----------------------------------------------------------------------------
(* SpecExec: signals are validated by the risk agent and requests are       *)
(* submitted to ExecutionAgent.execute_order, in any order.                 *)

ValidateTradeStep ==
    /\ \/ ValidateSize(1)
       \/ ValidateReturn(1)
    /\ UNCHANGED << execVars, monVars, metricVars, impactVars, restVars >>

\* Every part but the named one is idle.
IdleBut(part) ==
    /\ RiskIdle /\ ExecIdle /\ MonIdle /\ MetricsIdle /\ ImpactIdle
    /\ SelIdle /\ ShutdownIdle /\ BusIdle /\ SupervisionIdle /\ BookIdle
    /\ IF part = "stress" THEN TRUE ELSE StressIdle
    /\ IF part = "subs" THEN TRUE ELSE SubsIdle
    /\ IF part = "trading" THEN TRUE ELSE TradingIdle
    /\ IF part = "configs" THEN TRUE ELSE ConfigsIdle
    /\ IF part = "buffer" THEN TRUE ELSE BufferIdle
    /\ IF part = "circuit" THEN TRUE ELSE CircuitIdle

InitExec == RiskIdle /\ ExecIdle /\ MonIdle /\ MetricsIdle /\ ImpactIdle /\ RestIdle
NextExec == ValidateTradeStep \/ ExecuteOrderCall
SpecExec == InitExec /\ [][NextExec]_vars

-----------------------------------------------------------------------------
(* Spec: one order has been placed and is tracked; the broker works it     *)
(* while monitor_order calls supervise it.                                  *)

Init ==
    /\ RiskIdle /\ MonIdle /\ MetricsIdle /\ ImpactIdle /\ RestIdle
    /\ \E q \in Quantities, s \in {"AAA"} :
         /\ last_exec = TrackedExec([symbol |-> s, quantity |-> q])
         /\ broker = [o \in OrderIds |->
                        IF o = 1 THEN NewBrokerOrder(q) ELSE NoBrokerOrder]
         /\ active_orders = [o \in OrderIds |->
                        IF o = 1 THEN Tracked([symbol |-> s, quantity |-> q])
                        ELSE NoRequest]
         /\ placements = {[order_id |-> 1, symbol |-> s, via |-> "execute_order",
                           risk_validated |-> FALSE, revalidated |-> FALSE,
                           impact_estimated |-> TRUE]}
Next == BrokerEvent \/ MonitorStep
Spec == Init /\ [][Next]_vars

-----------------------------------------------------------------------------
(* SpecRisk: validate_trade calls running concurrently against one         *)
(* PortfolioState.                                                          *)

ValidateTradeConcurrent ==
    /\ \E c \in Callers :
         \/ ValidateSize(c)
         \/ ValidateReturn(c)
    /\ UNCHANGED << execVars, monVars, metricVars, impactVars, restVars >>

SpecRiskInit == InitRisk /\ ExecIdle /\ MonIdle /\ MetricsIdle /\ ImpactIdle /\ RestIdle
SpecRiskNext == ValidateTradeConcurrent
SpecRisk == SpecRiskInit /\ [][SpecRiskNext]_vars

-----------------------------------------------------------------------------
(* SpecMetrics: a long run of metric updates; each sample is tagged with   *)
(* its arrival number so that the content of a window can be told.          *)

RecordSamples ==
    /\ appended < MetricsMaxLen + ExtraSamples
    /\ appended' = appended + 1
    /\ execution_metrics' = AppendSamples(execution_metrics, appended + 1,
                                          appended + 1, appended + 1)
    /\ UNCHANGED << riskVars, execVars, monVars, impactVars, restVars >>

\* A metric update in which computing a value raises: nothing is appended.
RecordNothing ==
    /\ appended < MetricsMaxLen + ExtraSamples
    /\ UNCHANGED vars

SpecMetricsInit == RiskIdle /\ ExecIdle /\ MonIdle /\ MetricsIdle /\ ImpactIdle /\ RestIdle
SpecMetricsNext == RecordSamples \/ RecordNothing
SpecMetrics == SpecMetricsInit /\ [][SpecMetricsNext]_vars

-----------------------------------------------------------------------------
(* SpecImpact: the impact step of execute_order (lines 113-116) on every    *)
(* combination of quantity and market data.                                 *)

ImpactQuantities == 0..MaxQty

EstimateImpactStep ==
    /\ ~impact_out.computed
    /\ LET impact == EstimateMarketImpact(impact_in.quantity, impact_in.avg_volume,
                                          impact_in.volatility, impact_in.spread)
       IN impact_out' = [computed |-> TRUE, impact |-> impact,
                         adjusted |-> TakesAdjustBranch(impact)]
    /\ UNCHANGED << impact_in, riskVars, execVars, monVars, metricVars, restVars >>

SpecImpactInit ==
    /\ RiskIdle /\ ExecIdle /\ MonIdle /\ MetricsIdle /\ RestIdle
    /\ impact_in \in [quantity : ImpactQuantities, avg_volume : AvgVolumes,
                      volatility : Volatilities, spread : Spreads]
                     \cup {ScenarioImpactIn}
    /\ impact_out = NoImpactOut
SpecImpactNext == EstimateImpactStep
SpecImpact == SpecImpactInit /\ [][SpecImpactNext]_vars

-----------------------------------------------------------------------------
(* Properties *)

\* C1 (SpecExec): every broker order placement is preceded by a
\* validate_trade call for the same signal that returned approved with a
\* position size > 0.
C1_PlacementNeedsApproval ==
    \A p \in placements : p.risk_validated

RECURSIVE SumSizes(_)
SumSizes(ds) ==
    IF ds = {} THEN 0
    ELSE LET d == CHOOSE x \in ds : TRUE IN d.size + SumSizes(ds \ {d})

ApprovedDecisions == {d \in decisions : d.approved}

\* C2 (SpecRisk): the validate_trade calls that return approved against one
\* PortfolioState never have a combined risk (existing risk exposure plus
\* the approved sizes) above the portfolio risk limit.
C2_JointApprovalsWithinLimit ==
    Cardinality(ApprovedDecisions) >= 2 =>
        portfolio.risk_exposure + SumSizes(ApprovedDecisions)
            <= PortfolioRiskLimit(portfolio)

AllowedTransitions ==
    { << "PENDING", "ACTIVE" >>, << "ACTIVE", "PARTIALLY_FILLED" >>,
      << "PARTIALLY_FILLED", "ACTIVE" >>, << "ACTIVE", "FILLED" >>,
      << "PARTIALLY_FILLED", "FILLED" >>, << "PENDING", "CANCELLED" >>,
      << "ACTIVE", "CANCELLED" >>, << "PARTIALLY_FILLED", "CANCELLED" >>,
      << "PENDING", "REJECTED" >> }

\* C3 (Spec): every change of an order's status is one of the defined
\* transitions; a move to PartiallyFilled has filled < requested, a move to
\* Filled has filled = requested, and Rejected is entered from Pending only
\* (no transition leads back to Pending, so never after Active).
C3_OnlyDefinedTransitions ==
    [][\A o \in OrderIds :
          (broker[o].status # NoOrder /\ broker'[o].status # broker[o].status) =>
             /\ << broker[o].status, broker'[o].status >> \in AllowedTransitions
             /\ broker'[o].status = "PARTIALLY_FILLED" =>
                    broker'[o].filled < broker'[o].quantity
             /\ broker'[o].status = "FILLED" =>
                    broker'[o].filled = broker'[o].quantity]_vars

\* An order cancelled by supervision whose replacement has been filled.
C3_Witness ==
    /\ broker[1].status = "CANCELLED"
    /\ broker[2].status = "FILLED"

InterventionPcs == {"adjusting", "resubmitting"}

\* C4 (Spec): a fill that brings the filled quantity to the requested
\* quantity leaves the order Filled; a Filled order never changes again; and no
\* monitor_order call made after the order became Filled amends it or
\* cancels and resubmits it.
C4_FilledIsFinal ==
    /\ [][\A o \in OrderIds :
            (broker'[o].filled # broker[o].filled
                /\ broker'[o].filled = broker'[o].quantity)
                => broker'[o].status = "FILLED"]_vars
    /\ [][\A o \in OrderIds :
            broker[o].status = "FILLED" => broker'[o] = broker[o]]_vars
    /\ [](\A t \in Tasks :
            mon[t].after_filled => mon[t].pc \notin InterventionPcs)

\* A monitor_order call found an issue on a Filled order, fetched the status
\* in _handle_execution_issues and returned without intervening.
C4_Witness ==
    /\ last_dispatch = "FILLED"
    /\ \E t \in Tasks : mon[t].pc = "done"
    /\ \A t \in Tasks : mon[t].pc \notin InterventionPcs

\* C6 (Spec): at most one adjustment or resubmission is in flight per order.
C6_OneInterventionInFlight ==
    \A o \in OrderIds :
       Cardinality({t \in Tasks : mon[t].order = o /\ mon[t].pc \in InterventionPcs}) <= 1

\* C7 (Spec): every replacement order placed by cancel-and-resubmit was
\* placed after risk validation and impact estimation were run again.
C7_ResubmissionRevalidates ==
    \A p \in placements :
       p.via = "resubmit" => (p.revalidated /\ p.impact_estimated)

Windows == << execution_metrics.slippage, execution_metrics.fill_rates,
              execution_metrics.execution_times >>

\* C8 (SpecMetrics): each rolling window holds at most 1000 samples and
\* always equals the most recent samples in arrival order.
C8_WindowsAreMostRecent ==
    \A k \in 1..3 :
       LET w == Windows[k] IN
       /\ Len(w) <= MetricsMaxLen
       /\ Len(w) = Min(appended, MetricsMaxLen)
       /\ \A i \in 1..Len(w) : w[i] = appended - Len(w) + i

\* A full window has evicted its oldest samples.
C8_Witness ==
    /\ appended > MetricsMaxLen
    /\ Len(execution_metrics.slippage) = MetricsMaxLen
    /\ execution_metrics.slippage[1] = appended - MetricsMaxLen + 1

\* C9 (SpecPlace): when a market datum needed by the impact estimate is
\* unavailable, or the average volume is zero, the estimate is +infinity and
\* execute_order takes the _adjust_for_impact branch.
C9_MissingDataFailsClosed ==
    (last_exec.called /\ last_exec.data_missing) =>
        (last_exec.impact_inf /\ last_exec.adjusted)

\* An order placed after the adjustment forced by missing market data.
C9_Witness ==
    /\ last_exec.data_missing
    /\ last_exec.adjusted
    /\ last_exec.placed

ImpactDataPresent ==
    /\ impact_in.avg_volume > 0
    /\ impact_in.volatility >= 0
    /\ impact_in.spread >= 0

\* C10 (SpecImpact): for a positive average volume and fixed volatility and
\* spread the impact estimate is non-decreasing in the quantity, and it is
\* never negative.
C10_ImpactMonotone ==
    (impact_out.computed /\ ImpactDataPresent) =>
        /\ ~impact_out.impact.inf
        /\ impact_out.impact.val.num >= 0
        /\ impact_out.impact.val.den > 0
        /\ \A q \in ImpactQuantities :
              LET other == EstimateMarketImpact(q, impact_in.avg_volume,
                                                impact_in.volatility, impact_in.spread)
              IN /\ q >= impact_in.quantity => ImpactLeq(impact_out.impact, other)
                 /\ q <= impact_in.quantity => ImpactLeq(other, impact_out.impact)

\* An estimate that is strictly larger than the one for a smaller quantity.
C10_Witness ==
    /\ impact_out.computed
    /\ ImpactDataPresent
    /\ impact_in.quantity = MaxQty
    /\ ~ImpactLeq(impact_out.impact,
                  EstimateMarketImpact(1, impact_in.avg_volume,
                                       impact_in.volatility, impact_in.spread))

\* The weighted sum as one fraction over the common denominator
\* 10 * average_volume * reference_volatility * max_spread.
WeightedSum(in) ==
    Frac(VolumeWeightTenths * in.quantity * RefVolatilityPct * MaxSpreadBps
           + VolatilityWeightTenths * in.volatility * in.avg_volume * MaxSpreadBps
           + SpreadWeightTenths * in.spread * in.avg_volume * RefVolatilityPct,
         10 * in.avg_volume * RefVolatilityPct * MaxSpreadBps)

\* C11 (SpecImpact): with market data available the impact estimate equals
\* 0.5 * quantity / average_volume + 0.3 * volatility / 0.2
\* + 0.2 * spread / max_spread, and the scenario quantity 100,000, average
\* volume 200,000, reference volatility, maximum spread gives exactly 0.75.
C11_ImpactIsWeightedSum ==
    /\ (impact_out.computed
          /\ ~ImpactDataMissing(impact_in.avg_volume, impact_in.volatility,
                                impact_in.spread))
         => impact_out.impact = Finite(WeightedSum(impact_in))
    /\ (impact_out.computed /\ impact_in = ScenarioImpactIn)
         => impact_out.impact = Finite(Frac(3, 4))

\* The estimate of the scenario has been computed.
C11_Witness ==
    /\ impact_out.computed
    /\ impact_in = ScenarioImpactIn
    /\ impact_out.impact.val = Frac(3, 4)

-----------------------------------------------------------------------------
(* SpecSelect: the strategy selection of execute_order (line 111) on every  *)
(* combination of scores and faults.                                        *)

SelectStrategyStep ==
    /\ strategy_out = NoStrategy
    /\ strategy_out' = SelectExecutionStrategy(strategy_in.fault, strategy_in.scores)
    /\ UNCHANGED << strategy_in, shutdown, bus, laterVars, riskVars, execVars, monVars,
                    metricVars, impactVars >>

SpecSelectInit ==
    /\ RiskIdle /\ ExecIdle /\ MonIdle /\ MetricsIdle /\ ImpactIdle
    /\ ShutdownIdle /\ BusIdle /\ LaterIdle
    /\ strategy_in \in [symbol : Symbols, fault : SelectionFaults,
                        scores : [ExecutionStrategy -> Scores]]
    /\ strategy_out = NoStrategy
SpecSelectNext == SelectStrategyStep
SpecSelect == SpecSelectInit /\ [][SpecSelectNext]_vars

\* The priority of spec.md: Smart > VWAP > TWAP > Aggressive > Passive.
PriorityOrder == << "SMART", "VWAP", "TWAP", "AGGRESSIVE", "PASSIVE" >>
Rank(strategy) == CHOOSE i \in 1..Len(PriorityOrder) : PriorityOrder[i] = strategy

Selected == strategy_out # NoStrategy /\ strategy_in.fault = "none"

\* C12 (SpecSelect): the selected strategy has the maximum score, and among
\* the strategies with the maximum score it is the first in the priority
\* Smart > VWAP > TWAP > Aggressive > Passive.
C12_MaxScoreThenPriority ==
    Selected =>
        /\ strategy_in.scores[strategy_out] = MaxOf(strategy_in.scores)
        /\ \A k \in ExecutionStrategy :
              strategy_in.scores[k] = MaxOf(strategy_in.scores)
                  => Rank(strategy_out) <= Rank(k)

\* C13 (SpecSelect): when a market datum is unavailable or a scoring
\* function fails the selection returns Smart, whatever the order and
\* whichever datum was missing.
C13_FaultSelectsSmart ==
    (strategy_out # NoStrategy /\ strategy_in.fault # "none")
        => strategy_out = "SMART"

\* A selection that fell back to Smart although another strategy scored
\* strictly higher.
C13_Witness ==
    /\ strategy_in.fault = "liquidity"
    /\ strategy_out = "SMART"
    /\ strategy_in.scores["SMART"] < strategy_in.scores["PASSIVE"]

-----------------------------------------------------------------------------
(* SpecSizing: one validate_trade call on every combination of signal,     *)
(* portfolio and answers of the helpers.                                    *)

SpecSizingInit == InitRisk /\ ExecIdle /\ MonIdle /\ MetricsIdle /\ ImpactIdle /\ RestIdle
SpecSizingNext == ValidateTradeStep
SpecSizing == SpecSizingInit /\ [][SpecSizingNext]_vars

SevenChecks == {CheckNames[i] : i \in 1..Len(CheckNames)}

\* C14 (SpecSizing): validate_trade returns approved only if all seven checks
\* were evaluated and passed for the computed position size; a failed check,
\* or checks that could not be evaluated, give a result that is not approved.
C14_ApprovedOnlyIfAllChecksPass ==
    \A d \in decisions :
       /\ d.approved =>
            /\ DOMAIN d.checks = SevenChecks
            /\ \A k \in SevenChecks : d.checks[k]
            /\ d.checks["position_limit"] = CheckPositionLimit(d.size, portfolio)
            /\ d.checks["portfolio_risk"] = CheckPortfolioRisk(portfolio)
       /\ (\E k \in DOMAIN d.checks : ~d.checks[k]) => ~d.approved
       /\ DOMAIN d.checks # SevenChecks => ~d.approved

\* A call rejected because a single one of the seven checks failed.
C14_Witness ==
    \E d \in decisions :
       /\ ~d.approved
       /\ DOMAIN d.checks = SevenChecks
       /\ Cardinality({k \in SevenChecks : ~d.checks[k]}) = 1

Rejections == {d \in decisions : ~d.approved}
Listed(d) == {d.failed_checks[i] : i \in 1..Len(d.failed_checks)}
FalseChecks(d) == {k \in DOMAIN d.checks : ~d.checks[k]}

SizedCalls == {c \in Callers : calls[c].pc = "sized"}

\* portfolio_value * max_position_fraction * confidence * volatility_factor
\* * correlation_factor, the factors in tenths.
SizeProduct(total_value, f) ==
    (((total_value * MaxPositionPct) \div 100)
        * f.confidence * f.volatility_factor * f.correlation_factor) \div 1000

\* C16 (SpecSizing): the computed position size is the product of portfolio
\* value, maximum position fraction, confidence, volatility factor and
\* correlation factor, capped at portfolio value * maximum position
\* fraction; no computed or approved size exceeds that base size, and with
\* a portfolio value of 1,000,000 an approved size is at most 20,000.
C16_SizeIsCappedProduct ==
    /\ \A c \in SizedCalls :
          /\ calls[c].size <= (portfolio.total_value * MaxPositionPct) \div 100
          /\ calls[c].factors.ok =>
                calls[c].size =
                   Min(SizeProduct(portfolio.total_value, calls[c].factors),
                       (portfolio.total_value * MaxPositionPct) \div 100)
    /\ \A d \in ApprovedDecisions :
          /\ d.size <= (portfolio.total_value * MaxPositionPct) \div 100
          /\ portfolio.total_value = 1000000 => d.size <= 20000

\* With a portfolio value of 1,000,000 a product of 40,000 has been capped
\* at 20,000.
C16_Witness ==
    /\ portfolio.total_value = 1000000
    /\ \E c \in SizedCalls :
          /\ calls[c].factors.ok
          /\ SizeProduct(portfolio.total_value, calls[c].factors) = 40000
          /\ calls[c].size = 20000

\* The portfolio with its risk exposure set to r, all else unchanged.
WithExposure(r) == [portfolio EXCEPT !.risk_exposure = r]

\* The size validate_trade approves (0 when it does not approve) for a
\* computed position size at risk exposure r, the other answers held fixed.
ApprovedSizeAt(r, position_size, failing, checks_ok, params_ok) ==
    RiskDecision("AAA", position_size,
                 PerformRiskChecks(position_size, WithExposure(r), failing, checks_ok),
                 params_ok).size

ExposuresWithinLimit == {r \in RiskExposures : r <= PortfolioRiskLimit(portfolio)}

-----------------------------------------------------------------------------
(* SpecShutdown: shutdown of an agent that tracks any set of orders in any  *)
(* state.                                                                   *)

SpecShutdownInit ==
    /\ RiskIdle /\ MonIdle /\ MetricsIdle /\ ImpactIdle /\ RestIdle
    /\ placements = {}
    /\ last_exec = NoExec
    /\ \E st \in [OrderIds -> {NoOrder, "PENDING", "ACTIVE", "PARTIALLY_FILLED",
                               "FILLED"}] :
         /\ broker = [o \in OrderIds |->
                        IF st[o] = NoOrder THEN NoBrokerOrder
                        ELSE [status |-> st[o], quantity |-> MaxQty,
                              filled |-> CASE st[o] = "FILLED" -> MaxQty
                                           [] st[o] = "PARTIALLY_FILLED" -> 1
                                           [] OTHER -> 0]]
         /\ active_orders = [o \in OrderIds |->
                        IF st[o] = NoOrder THEN NoRequest
                        ELSE Tracked([symbol |-> "AAA", quantity |-> MaxQty])]
SpecShutdownNext == ShutdownStep
SpecShutdown == SpecShutdownInit /\ [][SpecShutdownNext]_vars

ShutdownOver == shutdown.pc \in {"done", "failed"}

\* C18 (SpecShutdown): shutdown issues a cancellation for every order that
\* was in active_orders when it began, before statistics are saved and
\* connections are closed, also when cancelling one of the orders fails.
C18_ShutdownCancelsEveryOrder ==
    /\ (shutdown.saved \/ shutdown.closed) => shutdown.at_start \subseteq shutdown.attempted
    /\ ShutdownOver => shutdown.at_start \subseteq shutdown.attempted

-----------------------------------------------------------------------------
(* SpecPublish: ORDER messages are published while the processor drains    *)
(* the queue and time passes.                                               *)

SpecPublishInit ==
    RiskIdle /\ ExecIdle /\ MonIdle /\ MetricsIdle /\ ImpactIdle /\ RestIdle
SpecPublishNext == BusStep
SpecPublish == SpecPublishInit /\ [][SpecPublishNext]_vars

\* C19 (SpecPublish): an ORDER message submitted while the ORDER rate limit
\* is exhausted is never dropped: its publish_message call returns True
\* with the message enqueued.
C19_ExhaustedSubmissionNotDropped ==
    (bus.last.id > 0 /\ bus.last.exhausted) =>
        (bus.last.result /\ bus.last.enqueued)

\* A monitor_order call is made and returns or goes on without a metric
\* sample: the order is unknown, the status fetch raised, or the metric
\* update raised.
FaultyMonitorCall ==
    /\ monitor_calls' = monitor_calls + 1
    /\ appended' = appended

\* A call that is handling an issue of its order takes a step, whether the
\* step succeeds or a helper raises in it.
HandlingStep(t) ==
    /\ mon[t].pc \in {"handle", "adjusting", "resubmitting"}
    /\ mon'[t] # mon[t]

\* C20 (Spec): a monitor_order call in which the status fetch or the metric
\* update fails changes no entry of active_orders, no order at the broker,
\* no placement and no other call's position; issue handling for one order,
\* failing or not, leaves the entries of all other tracked orders as they
\* are; and the three metric windows stay aligned, so that calls for other
\* orders go on unaffected.
C20_MonitorFaultIsContained ==
    /\ [][\A t \in Tasks :
            HandlingStep(t) =>
               \A x \in OrderIds \ {mon[t].order} :
                  active_orders[x].tracked =>
                     /\ active_orders'[x] = active_orders[x]
                     /\ broker'[x] = broker[x]]_vars
    /\ [][FaultyMonitorCall =>
            /\ active_orders' = active_orders
            /\ broker' = broker
            /\ placements' = placements
            /\ execution_metrics' = execution_metrics
            /\ Cardinality({t \in Tasks : mon'[t] # mon[t]}) = 1
            /\ \A t \in Tasks :
                  mon'[t] # mon[t] =>
                     (mon[t].pc = "ready" /\ mon'[t].pc \in {"done", "handle"})]_vars
    /\ [](/\ Len(execution_metrics.slippage) = Len(execution_metrics.fill_rates)
          /\ Len(execution_metrics.fill_rates) = Len(execution_metrics.execution_times))

\* Of two calls one recorded no sample, and the second call has gone on to
\* adjust the partially filled order.
C20_Witness ==
    /\ monitor_calls = 2
    /\ appended = 1
    /\ mon[1] = DoneMon
    /\ mon[2].pc = "adjusting"
    /\ broker[mon[2].order].status = "PARTIALLY_FILLED"

-----------------------------------------------------------------------------
(* SpecSupervise: one order has been placed and is tracked; the broker      *)
(* works it while a supervisor calls monitor_order again and again, each    *)
(* call awaited before the next.                                            *)

SupervisedQuantities == 0..MaxQty

SpecSuperviseInit ==
    /\ RiskIdle /\ MonIdle /\ MetricsIdle /\ ImpactIdle /\ RestIdle
    /\ \E q \in SupervisedQuantities, s \in {"AAA"} :
         /\ last_exec = TrackedExec([symbol |-> s, quantity |-> q])
         /\ broker = [o \in OrderIds |->
                        IF o = 1 THEN NewBrokerOrder(q) ELSE NoBrokerOrder]
         /\ active_orders = [o \in OrderIds |->
                        IF o = 1 THEN Tracked([symbol |-> s, quantity |-> q])
                        ELSE NoRequest]
         /\ placements = {[order_id |-> 1, symbol |-> s, via |-> "execute_order",
                           risk_validated |-> FALSE, revalidated |-> FALSE,
                           impact_estimated |-> TRUE]}
SpecSuperviseNext == BrokerEvent \/ SuperviseStep
SpecSupervise == SpecSuperviseInit /\ [][SpecSuperviseNext]_vars

\* C21 (SpecSupervise): for every order the number of automatic recovery
\* actions, amends plus cancel-and-resubmits, stays within the retry budget:
\* once retry_attempts actions were taken for an order no further amend or
\* resubmission is performed on it.
C21_RecoveryWithinBudget ==
    \A o \in OrderIds : supervision.recoveries[o] <= RetryAttempts

\* C29 (SpecSupervise): a monitor_order call that handles an execution issue
\* amends the order only if the status it fetched is PARTIALLY_FILLED and
\* _should_adjust_order holds, cancels and resubmits it only if that status
\* is ACTIVE and _is_order_stale holds, and for any other status changes
\* neither the broker's order nor the placements.
C29_InterventionFollowsStatus ==
    [][monitor_calls' # monitor_calls =>
         LET c == supervision'.last
         IN /\ c.action = "adjusting" =>
                  c.handled = "PARTIALLY_FILLED" /\ c.should_adjust
            /\ c.action = "resubmitting" =>
                  c.handled = "ACTIVE" /\ c.is_stale
            /\ c.handled \notin {"PARTIALLY_FILLED", "ACTIVE"} =>
                  /\ c.action = "done"
                  /\ broker' = broker
                  /\ placements' = placements
                  /\ active_orders' = active_orders
            /\ broker' # broker => c.action \in {"adjusting", "resubmitting"}
            /\ placements' # placements => c.action = "resubmitting"]_vars

\* A partially filled order was amended by the last monitor_order call.
C29_Witness ==
    /\ supervision.last.action = "adjusting"
    /\ supervision.last.handled = "PARTIALLY_FILLED"
    /\ supervision.recoveries[supervision.last.order] > 0

\* A stale active order was cancelled and resubmitted.
C29_WitnessResubmitted ==
    /\ supervision.last.action = "resubmitting"
    /\ supervision.last.handled = "ACTIVE"
    /\ Cardinality(placements) = 2

\* An execution issue on a filled order: no intervention.
C29_WitnessFilled ==
    /\ supervision.last.handled = "FILLED"
    /\ supervision.last.action = "done"

\* C30 (SpecSupervise): every status update monitor_order obtains for a
\* tracked order appends one sample of slippage, fill rate and execution
\* time to the rolling metrics, also when the update carries no last fill
\* time and when the requested quantity is 0.
C30_EveryUpdateSampled ==
    (supervision.last.tracked /\ supervision.last.fetched) =>
        supervision.last.sampled

\* C22 (SpecExec): every RiskDecision validate_trade returns, approval and
\* rejection alike, is on record in the log, and every order placement has a
\* logged RiskDecision for the same signal before it.
C22_DecisionLoggedBeforePlacement ==
    /\ \A d \in decisions : d \in AuditLog(decisions)
    /\ \A p \in placements : \E d \in AuditLog(decisions) : d.symbol = p.symbol

-----------------------------------------------------------------------------
(* SpecBooks: fills and price updates on the books of a backtest, which     *)
(* start with the initial capital in cash, and on those of the risk agent,  *)
(* which start from a consistent PortfolioState.                            *)

\* The risk agent's books at the start: all in cash, or a long position of
\* two in AAA bought and still quoted at 1000.
HeldAtStart ==
    [held |-> TRUE, direction |-> "LONG", quantity |-> 2, entry_price |-> 1000,
     current_price |-> 1000, unrealized_pnl |-> 0]

SpecBooksInit ==
    /\ RiskIdle /\ ExecIdle /\ MonIdle /\ MetricsIdle /\ ImpactIdle
    /\ SelIdle /\ ShutdownIdle /\ BusIdle /\ SupervisionIdle /\ FinalIdle
    /\ book \in
         { [NewBook EXCEPT !.owner = "backtest", !.cash = InitialCapital,
                           !.total_value = InitialCapital],
           [NewBook EXCEPT !.owner = "risk", !.cash = InitialCapital,
                           !.total_value = InitialCapital],
           [NewBook EXCEPT !.owner = "risk", !.cash = InitialCapital - 2000,
                           !.total_value = InitialCapital,
                           !.positions["AAA"] = HeldAtStart] }
SpecBooksNext == BookStep
SpecBooks == SpecBooksInit /\ [][SpecBooksNext]_vars

\* C23 (SpecBooks): after any sequence of fills and price updates, on the
\* risk agent's books and on the backtest's, for BUY and SELL trades alike,
\* cash plus the sum over the open positions of quantity * current price
\* equals the portfolio total value.
C23_CashPlusPositionsIsTotalValue ==
    book.cash + MarketValue(book.positions) = book.total_value

-----------------------------------------------------------------------------
(* SpecPlace: execute_order calls made while an earlier order is tracked    *)
(* and, in some behaviours, a monitor_order call on it is about to handle   *)
(* an execution issue.                                                      *)

SpecPlaceInit ==
    /\ RiskIdle /\ MetricsIdle /\ ImpactIdle /\ RestIdle
    /\ last_dispatch = NoDispatch
    /\ \E handling \in BOOLEAN :
         /\ monitor_calls = IF handling THEN 1 ELSE 0
         /\ mon = [t \in Tasks |->
                     IF handling /\ t = 1
                     THEN [pc |-> "handle", order |-> 1, after_filled |-> FALSE]
                     ELSE IdleMon]
    /\ \E q \in Quantities, s \in {"AAA"}, status \in {"PENDING", "ACTIVE"} :
         /\ last_exec = TrackedExec([symbol |-> s, quantity |-> q])
         /\ broker = [o \in OrderIds |->
                        IF o = 1
                        THEN [NewBrokerOrder(q) EXCEPT !.status = status]
                        ELSE NoBrokerOrder]
         /\ active_orders = [o \in OrderIds |->
                        IF o = 1 THEN Tracked([symbol |-> s, quantity |-> q])
                        ELSE NoRequest]
         /\ placements = {[order_id |-> 1, symbol |-> s, via |-> "execute_order",
                           risk_validated |-> FALSE, revalidated |-> FALSE,
                           impact_estimated |-> TRUE]}
SpecPlaceNext == ExecuteOrderCalls(MaxExecOrders + 1)
SpecPlace == SpecPlaceInit /\ [][SpecPlaceNext]_vars

\* C24 (SpecExec): when execute_order adjusts a request because its impact
\* exceeds the threshold, the order it places has the originally requested
\* quantity, and that quantity is no larger than the size of an approved
\* RiskDecision for the symbol.
C24_AdjustedOrderKeepsQuantityWithinApproval ==
    (last_exec.adjusted /\ last_exec.placed) =>
        /\ last_exec.sent = last_exec.requested
        /\ \E d \in decisions :
             /\ d.symbol = last_exec.symbol
             /\ d.approved
             /\ last_exec.sent <= d.size

\* C25 (SpecPlace): when _place_order returns no order id, execute_order
\* returns (False, reason), adds nothing to active_orders, and leaves the
\* entries of the other orders, the broker's view of them and the
\* monitor_order calls supervising them as they were.
C25_FailedPlacementLeavesOrdersAlone ==
    [][last_exec'.failed = "place" =>
          /\ ~last_exec'.ok
          /\ active_orders' = active_orders
          /\ broker' = broker
          /\ placements' = placements
          /\ mon' = mon]_vars

\* A placement failed while order 1 is tracked and a monitor_order call is
\* handling an execution issue on it.
C25_Witness ==
    /\ last_exec.failed = "place"
    /\ "place" \in {last_exec.steps[i] : i \in DOMAIN last_exec.steps}
    /\ active_orders[1].tracked
    /\ mon[1].pc = "handle"
    /\ \A o \in OrderIds \ {1} : ~active_orders[o].tracked

\* C26 (SpecExec): a signal without a symbol or without a direction makes
\* validate_trade return not approved with 'Validation error', before any
\* sizing or risk check; a request failing _validate_order makes
\* execute_order return (False, ...) after that one helper call, with no
\* strategy selected, no impact estimated and no order placed or tracked.
C26_MalformedInputRejected ==
    [][/\ \A d \in decisions' \ decisions :
            (d.symbol = NoSymbol \/ d.direction = NoDirection) =>
                /\ ~d.approved
                /\ d.size = 0
                /\ d.reason = "Validation error"
                /\ DOMAIN d.checks = {}
                /\ calls' = calls
       /\ (last_exec' # last_exec /\ last_exec'.failed = "validate") =>
            /\ ~last_exec'.ok
            /\ last_exec'.steps = << "validate" >>
            /\ ~last_exec'.place_called
            /\ placements' = placements
            /\ broker' = broker
            /\ active_orders' = active_orders]_vars

\* A signal for AAA without a direction was rejected, and so was a request
\* that failed _validate_order.
C26_Witness ==
    /\ \E d \in decisions :
         d.symbol = "AAA" /\ d.direction = NoDirection /\ ~d.approved
    /\ last_exec.failed = "validate"
    /\ last_exec.steps = << "validate" >>

\* The helpers of execute_order in the order of its body.
ExecSteps == << "validate", "select", "estimate", "adjust", "generate",
                "place", "track" >>
StepIndex(step) == CHOOSE i \in DOMAIN ExecSteps : ExecSteps[i] = step

\* C27 (SpecPlace): the helpers of an execute_order call run in the order
\* validation, strategy selection, impact estimation, adjustment, parameter
\* generation, placement, tracking; no helper runs after one that failed,
\* and _place_order is not called when parameter generation failed.
C27_NoStepAfterFailedOne ==
    /\ \A i, j \in DOMAIN last_exec.steps :
         i < j => StepIndex(last_exec.steps[i]) < StepIndex(last_exec.steps[j])
    /\ last_exec.failed # "none" =>
          last_exec.steps[Len(last_exec.steps)] = last_exec.failed

\* C28 (SpecPlace): execute_order passes the request through
\* _adjust_for_impact exactly when the estimated impact is strictly greater
\* than impact_threshold = 0.1; at or below the threshold the request handed
\* to _place_order is the original one.
C28_AdjustedIffAboveThreshold ==
    (last_exec.called /\ last_exec.failed # "validate") =>
        LET impact == last_exec.impact
            above == impact.inf \/ impact.val.num * 10 > impact.val.den
            adjusts == \E i \in DOMAIN last_exec.steps : last_exec.steps[i] = "adjust"
        IN /\ adjusts <=> above
           /\ (~above /\ last_exec.failed \in {"place", "track", "none"}) =>
                 last_exec.sent = last_exec.requested

\* An impact of exactly 0.1, the threshold: the order is placed unadjusted.
C28_Witness ==
    /\ last_exec.placed
    /\ ~last_exec.impact.inf
    /\ last_exec.impact.val.num * 10 = last_exec.impact.val.den
    /\ last_exec.sent = last_exec.requested
    /\ Cardinality(placements) = 2

\* An order placed after an adjustment for an impact above the threshold.
C28_WitnessAbove ==
    /\ last_exec.placed
    /\ \E i \in DOMAIN last_exec.steps : last_exec.steps[i] = "adjust"
    /\ last_exec.sent < last_exec.requested

-----------------------------------------------------------------------------
(* RiskManagementAgent._run_stress_tests                                    *)
(* src/tradinghaas/agents/risk-management-agent.py                          *)

\* _initialize_stress_scenarios: the 'price_change' of each scenario, in
\* percent (-0.15, -0.08, -0.05).
StressScenarios == [market_crash |-> 0 - 15, sector_rotation |-> 0 - 8,
                    volatility_spike |-> 0 - 5]
ScenarioNames == DOMAIN StressScenarios

\* Open positions of the stress-tested portfolio: per symbol none, or a
\* quantity at a current price.
NoHolding == [held |-> FALSE, quantity |-> 0, current_price |-> 0]
Holdings == {NoHolding} \cup
            {[held |-> TRUE, quantity |-> q, current_price |-> p] :
                q \in {1, 2}, p \in {10, 20}}
StressTotalValues == {0, 100, 1000}

\* _calculate_scenario_pnl(position, price_change, vol_change): the
\* first-order P&L exposure * price_change, in hundredths of the currency.
CalculateScenarioPnl(position, price_change) ==
    position.quantity * position.current_price * price_change

SumScenarioPnl(positions, price_change) ==
    LET syms == {sym \in DOMAIN positions : positions[sym].held}
        Sum[S \in SUBSET syms] ==
            IF S = {} THEN 0
            ELSE LET sym == CHOOSE x \in S : TRUE
                 IN CalculateScenarioPnl(positions[sym], price_change)
                      + Sum[S \ {sym}]
    IN Sum[syms]

\* _run_stress_tests(portfolio): one entry per scenario, or {} when anything
\* in the loop raises: _calculate_scenario_pnl does (pnl_raises, only
\* reached with an open position), or the division by a total value of 0.
\* pnl_percentage is the quotient pnl / total_value, kept as a fraction of
\* hundredths.
RunStressTests(positions, total_value, pnl_raises) ==
    IF (pnl_raises /\ \E sym \in DOMAIN positions : positions[sym].held)
          \/ total_value = 0
    THEN {}
    ELSE {[scenario |-> sc,
           pnl |-> SumScenarioPnl(positions, StressScenarios[sc]),
           pnl_percentage |->
               [num |-> SumScenarioPnl(positions, StressScenarios[sc]),
                den |-> total_value * 100]] : sc \in ScenarioNames}

RunStressTestsStep ==
    /\ ~stress.ran
    /\ \E pnl_raises \in BOOLEAN :
         stress' = [stress EXCEPT !.ran = TRUE,
                      !.pnl_raised = pnl_raises /\ \E sym \in Symbols :
                                                     stress.positions[sym].held,
                      !.results = RunStressTests(stress.positions,
                                                 stress.total_value, pnl_raises)]
    /\ UNCHANGED << riskVars, execVars, monVars, metricVars, impactVars, selVars,
                    shutdown, bus, supervision, book,
                    subs, trading, configs, buffer, circuit >>

\* SpecStress: one _run_stress_tests call on each portfolio.
SpecStressInit ==
    /\ IdleBut("stress")
    /\ \E positions \in [Symbols -> Holdings], total_value \in StressTotalValues :
         stress = [positions |-> positions, total_value |-> total_value,
                   ran |-> FALSE, pnl_raised |-> FALSE, results |-> {}]
SpecStressNext == RunStressTestsStep
SpecStress == SpecStressInit /\ [][SpecStressNext]_vars

\* C31 (SpecStress): when no position's scenario P&L fails to compute,
\* _run_stress_tests returns an entry for every configured scenario, also
\* with no positions or a total value of 0, whose pnl is the sum of the
\* positions' scenario P&L and whose pnl_percentage is pnl / total value.
C31_StressResultPerScenario ==
    (stress.ran /\ ~stress.pnl_raised) =>
        \A sc \in ScenarioNames :
           \E r \in stress.results :
              /\ r.scenario = sc
              /\ r.pnl = SumScenarioPnl(stress.positions, StressScenarios[sc])
              /\ r.pnl_percentage.num = r.pnl
              /\ r.pnl_percentage.den = stress.total_value * 100

-----------------------------------------------------------------------------
(* IntegrationLayer.subscribe and _route_message                            *)
(* src/Trader H v.1o/core/integration-layer.py                              *)

MessageTypes == {"ORDER", "SIGNAL"}
\* The value a message carries under the key a filter names, in its metadata
\* or else its payload (None: in neither), and the value a subscriber's
\* filter_criteria asks for (None: no filter).
MetaValues == {None, 1, 2}
FilterCriteria == {None, 1, 2}

\* self.subscriptions[message_type].add({'id': ..., 'callback': ...,
\* 'filter': ...}): the item is a dict, and a dict cannot be a member of a
\* set (TypeError: unhashable type).
Hashable(item) == FALSE

\* _matches_filter(message, filter_criteria)
MatchesFilter(message, filter_criteria) ==
    IF filter_criteria = None THEN TRUE
    ELSE message.meta # None /\ message.meta = filter_criteria

\* The layer after __init__: no subscriptions, empty queue.  returned: the
\* subscribe calls that returned, with what they returned; at: the position
\* of a call or a publication in the order of events.
NewSubs == [clock |-> 0, subscribe_calls |-> 0, returned |-> {},
            subscriptions |-> {}, published |-> 0, queue |-> << >>,
            routed |-> {}, delivered |-> {}]

\* subscribe(message_type, callback, filter_criteria): the subscription id
\* (here the number of the call), or None from the except branch.
Subscribe(message_type, filter_criteria) ==
    /\ subs.subscribe_calls < MaxSubscribers
    /\ LET n == subs.subscribe_calls + 1
           item == [id |-> n, type |-> message_type, filter |-> filter_criteria]
       IN subs' = [subs EXCEPT
              !.clock = @ + 1,
              !.subscribe_calls = n,
              !.subscriptions = IF Hashable(item) THEN @ \cup {item} ELSE @,
              !.returned = @ \cup
                  {[caller |-> n, type |-> message_type, filter |-> filter_criteria,
                    at |-> subs.clock + 1,
                    id |-> IF Hashable(item) THEN n ELSE None]}]

\* publish_message: the message is put on the queue of its priority; the
\* put raises when the queue already holds an item (HeapPushRaises) and the
\* call then returns False, the item staying on the heap.
PublishToQueue(message_type, meta) ==
    /\ subs.published < MaxRouted
    /\ LET n == subs.published + 1
           message == [id |-> n, type |-> message_type, meta |-> meta,
                       at |-> subs.clock + 1,
                       result |-> ~HeapPushRaises(subs.queue)]
       IN subs' = [subs EXCEPT !.clock = @ + 1, !.published = n,
                               !.queue = Append(@, message)]

\* _process_message_queue gets the next message and _route_message calls
\* the callback of every subscriber of its type whose filter matches.
RouteMessage ==
    /\ subs.queue # << >>
    /\ LET message == Head(subs.queue)
       IN subs' = [subs EXCEPT
              !.queue = Tail(@),
              !.routed = @ \cup {message},
              !.delivered = @ \cup
                  {<< s.id, message.id >> :
                      s \in {x \in subs.subscriptions :
                                /\ x.type = message.type
                                /\ MatchesFilter(message, x.filter)}}]

RouteStep ==
    /\ \/ \E message_type \in MessageTypes, filter_criteria \in FilterCriteria :
             Subscribe(message_type, filter_criteria)
       \/ \E message_type \in MessageTypes, meta \in MetaValues :
             PublishToQueue(message_type, meta)
       \/ RouteMessage
    /\ UNCHANGED << riskVars, execVars, monVars, metricVars, impactVars, selVars,
                    shutdown, bus, supervision, book,
                    stress, trading, configs, buffer, circuit >>

SpecRouteInit == IdleBut("subs") /\ subs = NewSubs
SpecRouteNext == RouteStep
SpecRoute == SpecRouteInit /\ [][SpecRouteNext]_vars

\* C32 (SpecRoute): every subscribe call returns a subscription id, and every
\* message routed after having been published later than the call, of the
\* subscribed type and matching the subscriber's filter (any message when
\* there is no filter), has been delivered to that subscriber's callback.
C32_SubscriberIsServed ==
    \A c \in subs.returned :
       /\ c.id # None
       /\ \A m \in subs.routed :
             (/\ m.at > c.at
              /\ m.type = c.type
              /\ (c.filter = None \/ (m.meta # None /\ m.meta = c.filter)))
               => << c.id, m.id >> \in subs.delivered

-----------------------------------------------------------------------------
(* TradingSystem.start and the agents it drives                             *)
(* src/Trader H v.1o/core/trading-system-core.py                            *)

\* signal.confidence, in percent, and the risks the two risk helpers return,
\* in percent (None: the helper returns None, as the stub does, or raises).
SignalConfidences == {50, 79, 80, 81, 95}
PositionRisks == {None, 1, 2, 3}
PortfolioRisks == {None, 5, 6}

\* if signal.confidence > 0.8
HighConfidenceFrom(confidence) == confidence >= HighConfidencePct
HighConfidence(confidence) == confidence > HighConfidencePct

\* RiskManagementAgent.validate_trade: comparing None raises TypeError and
\* the except branch returns False.
CoreValidateTrade(position_risk, portfolio_risk) ==
    IF position_risk = None \/ portfolio_risk = None THEN FALSE
    ELSE /\ position_risk <= CoreMaxPositionPct
         /\ portfolio_risk <= CoreMaxPortfolioRiskPct

\* ExecutionAgent.execute_trade(signal, risk_approved).  outcome: which
\* helper raises, or what _place_order returns.
TradeOutcomes == {"params_raise", "strategy_raise", "place_raise",
                  "place_false", "placed"}
NoTrade == [called |-> FALSE, risk_approved |-> FALSE, steps |-> << >>,
            result |-> FALSE]
ExecuteTrade(risk_approved, outcome) ==
    IF ~risk_approved
    THEN [called |-> TRUE, risk_approved |-> FALSE, steps |-> << >>,
          result |-> FALSE]
    ELSE [called |-> TRUE, risk_approved |-> TRUE,
          steps |-> CASE outcome = "params_raise" -> << "params" >>
                      [] outcome = "strategy_raise" -> << "params", "strategy" >>
                      [] OTHER -> << "params", "strategy", "place" >>,
          result |-> outcome = "placed"]

\* The system after __init__; last: the signal handled or the execute_trade
\* call made most recently.
NoSignal == [source |-> "none", confidence |-> 0, validated |-> FALSE,
             approved |-> FALSE, trade |-> NoTrade]
NewTrading == [handled |-> 0, orders |-> 0, last |-> NoSignal]

\* The body of `for signal in signals` for one signal (lines 214-219).
HandleSignal ==
    /\ trading.handled < MaxSignals
    /\ \E confidence \in SignalConfidences :
       \E position_risk \in IF HighConfidence(confidence) THEN PositionRisks
                            ELSE {None},
          portfolio_risk \in IF HighConfidence(confidence) THEN PortfolioRisks
                             ELSE {None} :
       \E outcome \in IF /\ HighConfidence(confidence)
                         /\ CoreValidateTrade(position_risk, portfolio_risk)
                      THEN TradeOutcomes ELSE {"placed"} :
         LET validated == HighConfidence(confidence)
             approved == validated /\ CoreValidateTrade(position_risk, portfolio_risk)
             trade == IF approved THEN ExecuteTrade(approved, outcome) ELSE NoTrade
         IN trading' = [handled |-> trading.handled + 1,
                        orders |-> trading.orders + (IF trade.result THEN 1 ELSE 0),
                        last |-> [source |-> "loop", confidence |-> confidence,
                                  validated |-> validated, approved |-> approved,
                                  trade |-> trade]]

\* execute_trade called by any other caller, with either flag.
ExecuteTradeCall ==
    /\ trading.handled < MaxSignals
    /\ \E risk_approved \in BOOLEAN :
       \E outcome \in IF risk_approved THEN TradeOutcomes ELSE {"placed"} :
         LET trade == ExecuteTrade(risk_approved, outcome)
         IN trading' = [handled |-> trading.handled + 1,
                        orders |-> trading.orders + (IF trade.result THEN 1 ELSE 0),
                        last |-> [NoSignal EXCEPT !.source = "direct",
                                                  !.trade = trade]]

TradingStep ==
    /\ HandleSignal \/ ExecuteTradeCall
    /\ UNCHANGED << riskVars, execVars, monVars, metricVars, impactVars, selVars,
                    shutdown, bus, supervision, book,
                    stress, subs, configs, buffer, circuit >>

SpecTradingInit == IdleBut("trading") /\ trading = NewTrading
SpecTradingNext == TradingStep
SpecTrading == SpecTradingInit /\ [][SpecTradingNext]_vars

\* C33 (SpecTrading): the trading loop calls execute_trade for a signal only
\* if the signal's confidence is above 0.8 and validate_trade returned true
\* for it; execute_trade called with risk_approved false returns False, runs
\* none of its helpers and places no order.
C33_TradeOnlyWhenConfidentAndApproved ==
    [][trading' # trading =>
         LET s == trading'.last
         IN /\ (s.source = "loop" /\ s.trade.called) =>
                  /\ s.confidence * 10 > 8 * 100
                  /\ s.validated /\ s.approved
            /\ (s.trade.called /\ ~s.trade.risk_approved) =>
                  /\ ~s.trade.result
                  /\ s.trade.steps = << >>
                  /\ trading'.orders = trading.orders]_vars

\* The loop placed an order for a signal of confidence 0.81.
C33_Witness ==
    /\ trading.last.source = "loop"
    /\ trading.last.confidence = 81
    /\ trading.last.trade.result
    /\ trading.orders > 0

\* execute_trade was called with risk_approved false.
C33_WitnessRefused ==
    /\ trading.last.source = "direct"
    /\ trading.last.trade.called
    /\ ~trading.last.trade.risk_approved
    /\ trading.orders > 0

-----------------------------------------------------------------------------
(* Further properties of execute_order (SpecPlace) and of the metric        *)
(* windows (SpecSupervise)                                                  *)

\* C34 (SpecPlace): an order id enters active_orders only in an
\* execute_order call whose placement returned that order id; the call
\* returns (True, order_id) only if the placement and the tracking
\* initialization both completed; a call that fails in validation or in
\* placement leaves active_orders as it was.
C34_TrackedOnlyAfterPlacement ==
    [][/\ \A o \in OrderIds :
            (active_orders'[o].tracked /\ ~active_orders[o].tracked) =>
                /\ last_exec'.placed
                /\ \E p \in placements' \ placements : p.order_id = o
       /\ last_exec'.ok =>
            /\ last_exec'.placed
            /\ last_exec'.failed = "none"
            /\ last_exec'.steps[Len(last_exec'.steps)] = "track"
            /\ \E p \in placements' \ placements :
                  active_orders'[p.order_id].tracked
       /\ last_exec'.failed \in {"validate", "place"} =>
            active_orders' = active_orders]_vars

\* A second order was placed and is tracked.
C34_Witness ==
    /\ last_exec.ok
    /\ Cardinality(placements) = 2
    /\ active_orders[2].tracked

\* An order was placed but its tracking initialization failed.
C34_WitnessUntracked ==
    /\ last_exec.failed = "track"
    /\ Cardinality(placements) = 2
    /\ ~active_orders[2].tracked


\* C35 (SpecSupervise): after any sequence of monitor_order calls the three
\* rolling windows slippage, fill_rates and execution_times hold the same
\* number of samples.
C35_WindowsSameLength ==
    /\ Len(execution_metrics.slippage) = Len(execution_metrics.fill_rates)
    /\ Len(execution_metrics.fill_rates) = Len(execution_metrics.execution_times)

\* A metric update that appended to all three windows, followed by one
\* whose computation failed and appended to none.
C35_Witness ==
    /\ monitor_calls = 2
    /\ Len(execution_metrics.slippage) = 1
    /\ supervision.last.fetched
    /\ ~supervision.last.sampled

-----------------------------------------------------------------------------
(* ConfigurationManager.update_config                                       *)
(* src/tradinghaas/core/configuration-manager.py                            *)

\* One configuration key with two settings; an updates dict names a new
\* value for a setting or leaves it out (None).
Settings == {"max_slippage", "min_fill_rate"}
SettingValues == {1, 2}
ConfigUpdates == [Settings -> SettingValues \cup {None}]

\* new_config = {**current_config, **updates}
Overlay(current_config, updates) ==
    [k \in Settings |-> IF updates[k] # None THEN updates[k] ELSE current_config[k]]

\* The manager after initialize(): a stored configuration for the key, the
\* same on file, one subscriber to its changes and no call made yet.
\* notified: the configurations the subscriber's callback was called with;
\* file: what <config_key>.yaml holds (None: the file is missing).
NoUpdate == [result |-> FALSE, updates |-> [k \in Settings |-> None],
             failed |-> "none"]
NewConfigs(config) == [calls |-> 0, stored |-> config, file |-> config,
                       notified |-> << >>, last |-> NoUpdate]

\* update_config(config_type, updates, component) from call to return.
\* Each helper answers (TRUE) or fails: _validate_config returns False or
\* raises for the updates or for the merged configuration,
\* _record_config_change raises, _save_configuration raises before or after
\* it renamed the file to its backup.
UpdateConfig(updates, updates_valid, merged_valid, recorded, saved, renamed) ==
    /\ configs.calls < MaxUpdates
    /\ LET current_config == configs.stored
           new_config == Overlay(current_config, updates)
           called == [configs EXCEPT !.calls = @ + 1]
           done(result, failed) == [result |-> result, updates |-> updates,
                                    failed |-> failed]
       IN configs' =
            IF ~updates_valid
            THEN [called EXCEPT !.last = done(FALSE, "validate_updates")]
            ELSE IF ~merged_valid
            THEN [called EXCEPT !.last = done(FALSE, "validate_merged")]
            ELSE IF ~recorded
            THEN [called EXCEPT !.stored = new_config,
                                !.last = done(FALSE, "record")]
            ELSE IF ~saved
            THEN [called EXCEPT !.stored = new_config,
                                !.notified = Append(@, new_config),
                                !.file = IF renamed THEN None ELSE @,
                                !.last = done(FALSE, "save")]
            ELSE [called EXCEPT !.stored = new_config,
                                !.notified = Append(@, new_config),
                                !.file = new_config,
                                !.last = done(TRUE, "none")]

ConfigStep ==
    /\ \E updates \in ConfigUpdates, updates_valid \in BOOLEAN :
       \E merged_valid \in Asked(updates_valid) :
       \E recorded \in Asked(merged_valid) :
       \E saved \in Asked(recorded) :
       \E renamed \in IF recorded /\ ~saved THEN BOOLEAN ELSE {FALSE} :
         UpdateConfig(updates, updates_valid, merged_valid, recorded, saved, renamed)
    /\ UNCHANGED << riskVars, execVars, monVars, metricVars, impactVars, selVars,
                    shutdown, bus, supervision, book,
                    stress, subs, trading, buffer, circuit >>

SpecConfigInit ==
    /\ IdleBut("configs")
    /\ \E config \in [Settings -> SettingValues] : configs = NewConfigs(config)
SpecConfigNext == ConfigStep
SpecConfig == SpecConfigInit /\ [][SpecConfigNext]_vars

\* C36 (SpecConfig): whenever update_config returns False the stored
\* configuration of the key is the one from before the call and no
\* subscriber was notified of a new configuration; when it returns True the
\* stored configuration is the previous one overlaid with the updates.
C36_FailedUpdateChangesNothing ==
    [][configs'.calls # configs.calls =>
         IF configs'.last.result
         THEN \A k \in Settings :
                configs'.stored[k] =
                   IF configs'.last.updates[k] # None
                   THEN configs'.last.updates[k] ELSE configs.stored[k]
         ELSE /\ configs'.stored = configs.stored
              /\ configs'.notified = configs.notified]_vars

-----------------------------------------------------------------------------
(* DataManagementSystem.store_data and _flush_buffer, for one data type     *)
(* stored in MongoDB (src/tradinghaas/data/data-management-system.py)       *)

Records == 1..MaxRecords
Flushers == 1..MaxFlushes

\* The system after initialize(): empty write buffer, no flush in flight,
\* nothing written.  accepted: the records store_data has taken (it returns
\* True for each); written: how often the backend has been given each
\* record; in_flight: per flusher, whether its _flush_buffer is suspended
\* in `await collection.insert_many(data)`, the contents of the list object
\* it handed over, how long that list was then, and whether that object is
\* still the write buffer (live), in which case store_data appends to it.
NoFlush == [awaiting |-> FALSE, data |-> << >>, handed |-> 0, live |-> FALSE]
NewBuffer == [write_buffer |-> << >>, accepted |-> 0,
              in_flight |-> [f \in Flushers |-> NoFlush],
              written |-> [r \in Records |-> 0]]

FreeFlushers == {f \in Flushers : ~buffer.in_flight[f].awaiting}

\* if not self.write_buffers[data_type]: return
NothingToFlush(write_buffer) == write_buffer = << >>

\* _flush_buffer up to its await: data = self.write_buffers[data_type] is
\* handed to insert_many, and the coroutine is suspended.
BeginFlush(b, f) ==
    IF NothingToFlush(b.write_buffer) THEN b
    ELSE [b EXCEPT !.in_flight[f] = [awaiting |-> TRUE, data |-> b.write_buffer,
                                     handed |-> Len(b.write_buffer),
                                     live |-> TRUE]]

\* self.write_buffers[data_type].extend(data): the list object that is the
\* write buffer grows, and with it the `data` of every flush that holds the
\* same object.
Extend(b, r) ==
    [b EXCEPT !.write_buffer = Append(@, r),
              !.accepted = r,
              !.in_flight = [f \in Flushers |->
                               IF @[f].awaiting /\ @[f].live
                               THEN [@[f] EXCEPT !.data = Append(@, r)]
                               ELSE @[f]]]

\* store_data(data_type, record): the record is appended to the write
\* buffer; with batch_size records or more in the buffer the call goes on
\* into _flush_buffer and returns True once that is over, whatever became
\* of it.
StoreData ==
    /\ buffer.accepted < MaxRecords
    /\ LET extended == Extend(buffer, buffer.accepted + 1)
       IN IF Len(extended.write_buffer) >= BatchSize
          THEN /\ FreeFlushers # {}
               /\ buffer' = BeginFlush(extended, CHOOSE f \in FreeFlushers : TRUE)
          ELSE buffer' = extended

\* The periodic flush of _flush_buffers, or the one of shutdown, calls
\* _flush_buffer.
OtherFlush ==
    /\ FreeFlushers # {}
    /\ ~NothingToFlush(buffer.write_buffer)
    /\ buffer' = BeginFlush(buffer, CHOOSE f \in FreeFlushers : TRUE)

\* The records a sequence holds in its first n places.
Held(data, n) == {data[i] : i \in 1..n}

\* insert_many is over and _flush_buffer resumes.  The driver read the list
\* at some moment of the await, so it inserted the records handed over and
\* any number of those appended to the same list since.  After a successful
\* insert the flush rebinds the write buffer to a new empty list (line 195),
\* so that no flush in flight holds the write buffer any more; a failed
\* insert raises into the except branch and the buffer stays as it is.
FlushResumes(f) ==
    /\ buffer.in_flight[f].awaiting
    /\ \E inserted \in BOOLEAN :
         IF inserted
         THEN \E n \in buffer.in_flight[f].handed..Len(buffer.in_flight[f].data) :
                buffer' = [buffer EXCEPT
                      !.written = [r \in Records |->
                                     IF r \in Held(buffer.in_flight[f].data, n)
                                     THEN @[r] + 1 ELSE @[r]],
                      !.write_buffer = << >>,
                      !.in_flight = [g \in Flushers |->
                                       IF g = f THEN NoFlush
                                       ELSE [@[g] EXCEPT !.live = FALSE]]]
         ELSE buffer' = [buffer EXCEPT !.in_flight[f] = NoFlush]

BufferStep ==
    /\ \/ StoreData
       \/ OtherFlush
       \/ \E f \in Flushers : FlushResumes(f)
    /\ UNCHANGED << riskVars, execVars, monVars, metricVars, impactVars, selVars,
                    shutdown, bus, supervision, book,
                    stress, subs, trading, configs, circuit >>

SpecBufferInit == IdleBut("buffer") /\ buffer = NewBuffer
SpecBufferNext == BufferStep
SpecBuffer == SpecBufferInit /\ [][SpecBufferNext]_vars

\* An accepted record that can still reach the backend: it is in the write
\* buffer or in the list of a flush that is awaiting the backend.
Pending(r) ==
    \/ r \in Held(buffer.write_buffer, Len(buffer.write_buffer))
    \/ \E f \in Flushers :
          /\ buffer.in_flight[f].awaiting
          /\ r \in Held(buffer.in_flight[f].data, Len(buffer.in_flight[f].data))

\* C37 (SpecBuffer): under any interleaving of store_data calls and flushes
\* no accepted record is given to the backend twice, and an accepted record
\* that has not been written yet is still in the write buffer or with a
\* flush that is awaiting the backend, so that it can still be written.
C37_AcceptedRecordsWrittenOnce ==
    \A r \in 1..buffer.accepted :
       /\ buffer.written[r] <= 1
       /\ buffer.written[r] = 0 => Pending(r)

\* The part of C37 about loss alone: an accepted record that has not been
\* written can still be written.
C37_NoAcceptedRecordLost ==
    \A r \in 1..buffer.accepted : buffer.written[r] = 0 => Pending(r)

\* The part of C37 about overlapping flushes alone: no record is given to
\* the backend twice.
C37_NoRecordWrittenTwice ==
    \A r \in Records : buffer.written[r] <= 1

-----------------------------------------------------------------------------
(* CircuitBreaker (src/tradinghaas/data/system-bootstrap.py)                *)

\* A metrics dict, in thousandths.  A key may be absent (get() then gives
\* its default) or hold a value that cannot be compared with a float, such
\* as None.
Absent == [kind |-> "absent", val |-> 0]
NotComparable == [kind |-> "bad", val |-> 0]
Reading(v) == [kind |-> "num", val |-> v]
MetricKeys == {"daily_pnl", "error_rate", "latency", "data_quality"}
MetricValues ==
    [daily_pnl |-> {Absent, NotComparable, Reading(DailyLossThreshold - 1),
                    Reading(DailyLossThreshold)},
     error_rate |-> {Absent, NotComparable, Reading(ErrorRateThreshold),
                     Reading(ErrorRateThreshold + 1)},
     latency |-> {Absent, NotComparable, Reading(SystemLatencyThreshold),
                  Reading(SystemLatencyThreshold + 1)},
     data_quality |-> {Absent, NotComparable, Reading(DataQualityThreshold - 1),
                       Reading(DataQualityThreshold)}]
MetricsDicts ==
    {[daily_pnl |-> a, error_rate |-> b, latency |-> c, data_quality |-> d] :
        a \in MetricValues.daily_pnl, b \in MetricValues.error_rate,
        c \in MetricValues.latency, d \in MetricValues.data_quality}

\* metrics.get(key, default)
Get(metrics, key, default) ==
    IF metrics[key].kind = "absent" THEN default ELSE metrics[key].val

\* Comparing the value under key with a float raises TypeError.
CompareRaises(metrics, key) == metrics[key].kind = "bad"

DailyLossBreachedFrom(daily_pnl) == daily_pnl <= DailyLossThreshold
DailyLossBreached(daily_pnl) == daily_pnl < DailyLossThreshold

\* The condition of check_conditions, evaluated left to right as `or`
\* does: the first comparison that is true or raises ends it.
Conditions(metrics) ==
    IF CompareRaises(metrics, "daily_pnl") THEN "raised"
    ELSE IF DailyLossBreached(Get(metrics, "daily_pnl", 0)) THEN "breached"
    ELSE IF CompareRaises(metrics, "error_rate") THEN "raised"
    ELSE IF Get(metrics, "error_rate", 0) > ErrorRateThreshold THEN "breached"
    ELSE IF CompareRaises(metrics, "latency") THEN "raised"
    ELSE IF Get(metrics, "latency", 0) > SystemLatencyThreshold THEN "breached"
    ELSE IF CompareRaises(metrics, "data_quality") THEN "raised"
    ELSE IF Get(metrics, "data_quality", 1000) < DataQualityThreshold THEN "breached"
    ELSE "clear"

\* _trip_breaker
TripBreaker(c) == [c EXCEPT !.status = "open"]

\* CircuitBreaker(): status closed.  checks counts the calls; metrics and
\* returned are the argument and the result of the last call.
NewCircuit(metrics) ==
    [status |-> "closed", checks |-> 0, metrics |-> metrics, returned |-> FALSE]

\* await breaker.check_conditions(metrics)
CheckConditions(metrics) ==
    /\ circuit.checks < MaxChecks
    /\ LET called == [circuit EXCEPT !.checks = @ + 1, !.metrics = metrics]
       IN circuit' =
            IF Conditions(metrics) = "clear"
            THEN [called EXCEPT !.returned = TRUE]
            ELSE [TripBreaker(called) EXCEPT !.returned = FALSE]

CircuitStep ==
    /\ \E metrics \in MetricsDicts : CheckConditions(metrics)
    /\ UNCHANGED << riskVars, execVars, monVars, metricVars, impactVars, selVars,
                    shutdown, bus, supervision, book,
                    stress, subs, trading, configs, buffer >>

SpecCircuitInit ==
    /\ IdleBut("circuit")
    /\ circuit = NewCircuit(CHOOSE metrics \in MetricsDicts : TRUE)
SpecCircuitNext == CircuitStep
SpecCircuit == SpecCircuitInit /\ [][SpecCircuitNext]_vars

\* Some metric of the last call is a number beyond its threshold.
SomeMetricBreaches ==
    LET m == circuit.metrics
        num(key) == m[key].kind = "num"
    IN \/ num("daily_pnl") /\ m.daily_pnl.val * 100 < 0 - 2 * 1000
       \/ num("error_rate") /\ m.error_rate.val * 100 > 5 * 1000
       \/ num("latency") /\ m.latency.val * 10 > 5 * 1000
       \/ num("data_quality") /\ m.data_quality.val * 100 < 95 * 1000

\* Some metric of the last call cannot be compared, so that the check can
\* fail.
SomeMetricNotComparable ==
    \E key \in MetricKeys : circuit.metrics[key].kind = "bad"

\* C38 (SpecCircuit): after a check_conditions call in which a metric
\* breaches its threshold the call has returned False and the status is
\* open; a call that returns True had no metric breaching and no failing
\* comparison, and a call with neither returns True; a call that returns
\* False leaves the status open; and a status that is open stays open in
\* every later call.
C38_BreakerTripsAndStaysOpen ==
    /\ [](circuit.checks > 0 =>
            /\ SomeMetricBreaches => (~circuit.returned /\ circuit.status = "open")
            /\ circuit.returned <=> (~SomeMetricBreaches /\ ~SomeMetricNotComparable)
            /\ ~circuit.returned => circuit.status = "open")
    /\ [][circuit.status = "open" => circuit'.status = "open"]_vars

\* A call at the daily-loss threshold itself, all else in order, has
\* returned True with the breaker closed.
C38_Witness ==
    /\ circuit.checks = 1
    /\ circuit.metrics.daily_pnl = Reading(DailyLossThreshold)
    /\ circuit.returned
    /\ circuit.status = "closed"

\* A breaching call has tripped the breaker.
C38_WitnessTripped ==
    /\ circuit.checks > 0
    /\ SomeMetricBreaches
    /\ ~SomeMetricNotComparable
    /\ ~circuit.returned
    /\ circuit.status = "open"

\* A failing comparison has tripped the breaker with no metric breaching.
C38_WitnessFailed ==
    /\ circuit.checks > 0
    /\ SomeMetricNotComparable
    /\ ~SomeMetricBreaches
    /\ ~circuit.returned
    /\ circuit.status = "open"

\* A later call with every metric in order returns True and the breaker is
\* still open.
C38_WitnessStaysOpen ==
    /\ circuit.checks > 1
    /\ circuit.returned
    /\ circuit.status = "open"

=============================================================================
